---- MODULE Spec2Model ----
(***************************************************************************)
(* Model of the aviation data API (src/main.py, src/aggregates.py):        *)
(*   - the human-evaluation submit protocol over the two tables            *)
(*     evaluation_assignments and human_evaluation, run by concurrent      *)
(*     request handlers against a PostgreSQL store (READ COMMITTED);       *)
(*   - the read endpoints over the three incident source tables.           *)
(***************************************************************************)
EXTENDS Integers, Sequences, FiniteSets, Bags, TLC

(***************************************************************************)
(* Bounds of the model.                                                    *)
(***************************************************************************)
NumSessions == 2
MaxSubmits == 3
MaxAssignments == 2
MaxTime == 2
MaxAsnRows == 2
MaxAsrsRows == 1
MaxPciRows == 1

(***************************************************************************)
(* SQL NULL for a nullable column: the empty tuple; a present value v is   *)
(* the one-element tuple <<v>>.                                            *)
(***************************************************************************)
NULL == <<>>
Some(v) == <<v>>

Sessions == 1..NumSessions

\* Request inputs of POST /human_evaluation/submit (HumanEvaluationRequest).
\* The (classification_result_id, evaluator_id) pairs requests and assignments
\* are drawn from: two evaluators of one result, and a second result.
Pairs == {<<101, "JB">>, <<101, "jb">>, <<102, "JB">>}
\* (human_category, human_confidence) choices; the confidence is in
\* hundredths, 0.99 and 1.50: the request model declares a bare float, so an
\* out-of-range value is a possible input.
Payloads == {<<"BIRD", 99>>, <<"OTHR", 150>>}
Reasonings == {"This is a test."}

HumanEvaluationRequest ==
    {[classification_result_id |-> p[1], evaluator_id |-> p[2],
      human_category |-> q[1], human_confidence |-> q[2],
      human_reasoning |-> h] : p \in Pairs, q \in Payloads, h \in Reasonings}

NoRequest == [kind |-> "none"]

\* Query inputs of GET /classification-results.
EvaluatorFilters == {NULL, Some("jb"), Some("JB")}
\* skip: int = 0, limit: int = 100 (the defaults of the endpoint)
DefaultSkip == 0
DefaultLimit == 100

\* str.upper over the evaluator ids of the model.
Upper(e) == CASE e = "jb" -> "JB" [] OTHER -> e

(***************************************************************************)
(* Responses.                                                              *)
(***************************************************************************)
NoResult == [kind |-> "none"]
\* return {"status": "error", "message": "Assignment not found or already complete."}
AssignmentNotFound ==
    [kind |-> "json", status |-> 200,
     body |-> [status |-> "error",
               message |-> "Assignment not found or already complete."]]
\* return {"status": "success", "message": "Evaluation submitted"}
EvaluationSubmitted ==
    [kind |-> "json", status |-> 200,
     body |-> [status |-> "success", message |-> "Evaluation submitted"]]
\* An exception leaving the handler: the framework's 500 response.
ServerError == [kind |-> "exception", status |-> 500]
\* The handler's process died: nothing is answered.
Crashed == [kind |-> "crashed"]
\* A list of rows returned by a read endpoint.
RowsResponse(rows) == [kind |-> "rows", status |-> 200, body |-> rows]

VARIABLES
    asn_scraped_accidents,  \* source table: set of rows keyed by uid
    asrs_records,           \* source table: set of rows keyed by uid
    pci_scraped_accidents,  \* source table: set of rows keyed by uid
    classification_results, \* table: set of rows keyed by id (written by the external pipeline only)
    airport_location,       \* reference table: set of rows keyed by icao_code
    response,               \* the latest response of a read endpoint over the source tables
    evaluation_assignments, \* committed table: sequence of rows, index = assignment_id
    human_evaluation,       \* committed table: sequence of rows, index = id
    now,                    \* the wall clock read by datetime.now()
    pc,                     \* per session: position of its request handler
    req,                    \* per session: the request being served
    now_ts,                 \* per session: now_ts of submit_human_evaluation
    tx_insert,              \* per session: rows inserted by its open transaction
    tx_update,              \* per session: assignment_ids updated (and row-locked) by its open transaction
    result,                 \* per session: the response of the finished request
    nsubmits,               \* number of submit requests started so far
    settled                 \* history: per pair, the number of its human_evaluation rows when its
                            \* latest successful submit committed; 0 when there is none, or an
                            \* assignment of the pair was created since

vars == <<asn_scraped_accidents, asrs_records, pci_scraped_accidents,
          classification_results, airport_location, response, evaluation_assignments,
          human_evaluation, now, pc, req, now_ts, tx_insert, tx_update, result,
          nsubmits, settled>>

\* The source tables and the read endpoints' response.
qvars == <<asn_scraped_accidents, asrs_records, pci_scraped_accidents,
           airport_location, response>>
\* The tables the read endpoints query.
stores == <<asn_scraped_accidents, asrs_records, pci_scraped_accidents,
            classification_results, airport_location>>
\* The state of the evaluation workflow.
pvars == <<evaluation_assignments, human_evaluation, now, pc, req, now_ts,
           tx_insert, tx_update, result, nsubmits, settled>>

tables == <<evaluation_assignments, human_evaluation>>

(***************************************************************************)
(* The rows a statement sees: READ COMMITTED shows every committed row;    *)
(* a session's own uncommitted writes are held in tx_insert and tx_update. *)
(***************************************************************************)
AssignmentIds == DOMAIN evaluation_assignments

\* Mutant: the rows are matched on classification_result_id alone.
MatchingAssignments_AnyEvaluator(c, e) ==
    {a \in AssignmentIds : evaluation_assignments[a].classification_result_id = c}

\* WHERE classification_result_id = :c_id AND evaluator_id = :e_id
MatchingAssignments(c, e) ==
    {a \in AssignmentIds :
        /\ evaluation_assignments[a].classification_result_id = c
        /\ evaluation_assignments[a].evaluator_id = e}

\* Mutant: the check SELECT without "AND is_complete = FALSE".
IncompleteAssignments_AnyRow(c, e) == MatchingAssignments(c, e)

\* ... AND is_complete = FALSE  (assignment_check_query)
IncompleteAssignments(c, e) ==
    {a \in MatchingAssignments(c, e) : ~evaluation_assignments[a].is_complete}

\* The rows of human_evaluation of one pair.
EvaluationsOf(c, e) ==
    {i \in DOMAIN human_evaluation :
        /\ human_evaluation[i].classification_result_id = c
        /\ human_evaluation[i].evaluator_id = e}

InFlight(s) == pc[s] \in {"checked", "inserted", "updated"}

(***************************************************************************)
(* The source tables.  A uid "asn_1" is the pair <<"asn", 1>>: the text     *)
(* before the first underscore and the rest.  The three tables name their  *)
(* columns differently; pci_scraped_accidents has no phase column.         *)
(***************************************************************************)
\* The column values a source row is drawn from: every nullable column
\* NULL, and two fully populated rows dated in different years.
NullShape ==
    [sanitized_date |-> NULL, operator |-> NULL, phase |-> NULL,
     aircraft_type |-> NULL, location |-> NULL, narrative |-> NULL]
CruiseShape ==
    [sanitized_date |-> Some(<<2024, 1, 15>>), operator |-> Some("Test Operator"),
     phase |-> Some("cruise"), aircraft_type |-> Some("A320"),
     location |-> Some("KJFK"), narrative |-> Some("Test synopsis")]
ApproachShape ==
    [sanitized_date |-> Some(<<2023, 12, 31>>), operator |-> Some("Another Operator"),
     phase |-> Some("approach"), aircraft_type |-> Some("B737"),
     location |-> Some("kjfk"), narrative |-> Some("Test narrative")]
RowShapes == {NullShape, CruiseShape, ApproachShape}

AsnRow(u, sh) ==
    [uid |-> u, narrative |-> sh.narrative, sanitized_date |-> sh.sanitized_date,
     phase |-> sh.phase, aircraft_type |-> sh.aircraft_type,
     location |-> sh.location, operator |-> sh.operator]
AsrsRow(u, sh) ==
    [uid |-> u, synopsis |-> sh.narrative, sanitized_date |-> sh.sanitized_date,
     phase |-> sh.phase, aircraft_type |-> sh.aircraft_type,
     place |-> sh.location, operator |-> sh.operator]
PciRow(u, sh) ==
    [uid |-> u, summary |-> sh.narrative, sanitized_date |-> sh.sanitized_date,
     aircraft_type |-> sh.aircraft_type, location |-> sh.location,
     operator |-> sh.operator]

AsnUids == {<<"asn", i>> : i \in 1..MaxAsnRows}
AsrsUids == {<<"asrs", i>> : i \in 1..MaxAsrsRows}
PciUids == {<<"pci", i>> : i \in 1..MaxPciRows}

\* Every content of a table whose primary key uid ranges over uids.
TableContents(uids, Row(_, _)) ==
    UNION {{{Row(u, f[u]) : u \in D} : f \in [D -> RowShapes]} : D \in SUBSET uids}

\* The classification rows of the evaluation workflow's store.
ClassificationFixture ==
    {[id |-> 101, source_uid |-> <<"asn", 1>>, final_category |-> "Bird Strike"],
     [id |-> 102, source_uid |-> <<"asrs", 1>>, final_category |-> "Weather"]}

\* The airport the reference table is seeded with: a code and a name only.
AirportFixture ==
    {[icao_code |-> "kjfk", name |-> Some("John F. Kennedy International Airport"),
      lat |-> NULL, lon |-> NULL]}

NoResponse == [endpoint |-> "none"]

\* The evaluation workflow before any request: no assignment, no evaluation.
ProtocolInit ==
    /\ evaluation_assignments = <<>>
    /\ human_evaluation = <<>>
    /\ now = 1
    /\ pc = [s \in Sessions |-> "idle"]
    /\ req = [s \in Sessions |-> NoRequest]
    /\ now_ts = [s \in Sessions |-> NULL]
    /\ tx_insert = [s \in Sessions |-> <<>>]
    /\ tx_update = [s \in Sessions |-> {}]
    /\ result = [s \in Sessions |-> NoResult]
    /\ nsubmits = 0
    /\ settled = [p \in Pairs |-> 0]

\* The evaluation workflow over a store holding one accident and one safety
\* report, each with a classification.
Init ==
    /\ asn_scraped_accidents = {AsnRow(<<"asn", 1>>, ApproachShape)}
    /\ asrs_records = {AsrsRow(<<"asrs", 1>>, CruiseShape)}
    /\ pci_scraped_accidents = {}
    /\ classification_results = ClassificationFixture
    /\ airport_location = AirportFixture
    /\ response = NoResponse
    /\ ProtocolInit

(***************************************************************************)
(* The external assignment-generation process: adds one incomplete row for *)
(* a pair that has no active (incomplete) assignment.                      *)
(***************************************************************************)
CreateAssignment(c, e) ==
    /\ Len(evaluation_assignments) < MaxAssignments
    /\ IncompleteAssignments(c, e) = {}
    /\ evaluation_assignments' = Append(evaluation_assignments,
          [classification_result_id |-> c, evaluator_id |-> e,
           is_complete |-> FALSE, completed_at |-> NULL])
    /\ settled' = [settled EXCEPT ![<<c, e>>] = 0]
    /\ UNCHANGED <<qvars, classification_results, human_evaluation, now, pc, req,
                   now_ts, tx_insert, tx_update, result, nsubmits>>

Tick ==
    /\ now < MaxTime
    /\ now' = now + 1
    /\ UNCHANGED <<qvars, classification_results, tables, pc, req, now_ts, tx_insert,
                   tx_update, result, nsubmits, settled>>

(***************************************************************************)
(* submit_human_evaluation, one action per statement sent to the store.    *)
(***************************************************************************)

\* now_ts = datetime.now(); the assignment check SELECT; the early return.
SubmitCheck(s, r) ==
    /\ pc[s] = "idle"
    /\ nsubmits < MaxSubmits
    /\ nsubmits' = nsubmits + 1
    /\ req' = [req EXCEPT ![s] =
                  [kind |-> "submit", body |-> r,
                   \* the assignment_ids the check SELECT returned
                   found |-> IncompleteAssignments(r.classification_result_id,
                                                   r.evaluator_id)]]
    /\ now_ts' = [now_ts EXCEPT ![s] = Some(now)]
    /\ IF IncompleteAssignments(r.classification_result_id, r.evaluator_id) = {}
          THEN /\ pc' = [pc EXCEPT ![s] = "done"]
               /\ result' = [result EXCEPT ![s] = AssignmentNotFound]
          ELSE /\ pc' = [pc EXCEPT ![s] = "checked"]
               /\ UNCHANGED result
    /\ UNCHANGED <<qvars, classification_results, tables, now, tx_insert, tx_update,
                   settled>>

\* Mutant: :h_cat bound to the reasoning text.
InsertedRow_ReasonAsCategory(r, ts) ==
    [classification_result_id |-> r.classification_result_id,
     evaluator_id |-> r.evaluator_id,
     human_category |-> r.human_reasoning,
     human_confidence |-> r.human_confidence,
     human_reasoning |-> r.human_reasoning,
     created_at |-> ts]

\* The row written by insert_query.
InsertedRow(r, ts) ==
    [classification_result_id |-> r.classification_result_id,
     evaluator_id |-> r.evaluator_id,
     human_category |-> r.human_category,
     human_confidence |-> r.human_confidence,
     human_reasoning |-> r.human_reasoning,
     created_at |-> ts]

\* INSERT INTO human_evaluation ..., inside the session's transaction.
SubmitInsert(s) ==
    /\ pc[s] = "checked"
    /\ tx_insert' = [tx_insert EXCEPT ![s] =
                        Append(@, InsertedRow(req[s].body, now_ts[s]))]
    /\ pc' = [pc EXCEPT ![s] = "inserted"]
    /\ UNCHANGED <<qvars, classification_results, tables, now, req, now_ts, tx_update,
                   result, nsubmits, settled>>

\* Mutant: the UPDATE's WHERE matches no row.
UpdateTargets_NoRow(c, e) == {}

\* The rows update_query changes: every row of the pair.
UpdateTargets(c, e) == MatchingAssignments(c, e)

\* Another open transaction holds the row lock of one of these rows.
LockedByOther(s, rows) ==
    \E t \in Sessions \ {s} : tx_update[t] \cap rows # {}

\* UPDATE evaluation_assignments SET is_complete = TRUE, completed_at = ...
\* It waits while another transaction holds a lock on a row it matches.
SubmitUpdate(s) ==
    /\ pc[s] = "inserted"
    /\ LET rows == UpdateTargets(req[s].body.classification_result_id,
                                 req[s].body.evaluator_id)
       IN /\ ~LockedByOther(s, rows)
          /\ tx_update' = [tx_update EXCEPT ![s] = rows]
    /\ pc' = [pc EXCEPT ![s] = "updated"]
    /\ UNCHANGED <<qvars, classification_results, tables, now, req, now_ts, tx_insert,
                   result, nsubmits, settled>>

\* The assignment table after the transaction's update is applied.
ApplyUpdate(rows, ts) ==
    [a \in AssignmentIds |->
        IF a \in rows
           THEN [evaluation_assignments[a] EXCEPT
                    !.is_complete = TRUE, !.completed_at = ts]
           ELSE evaluation_assignments[a]]

\* Mutant: the commit replaces the table's rows by the transaction's.
CommitWrites_Overwrites(s) ==
    /\ human_evaluation' = tx_insert[s]
    /\ evaluation_assignments' = ApplyUpdate(tx_update[s], now_ts[s])

\* What db.commit() makes visible: the transaction's insert and update.
CommitWrites(s) ==
    /\ human_evaluation' = human_evaluation \o tx_insert[s]
    /\ evaluation_assignments' = ApplyUpdate(tx_update[s], now_ts[s])

\* await db.commit(); return {"status": "success", ...}
SubmitCommit(s) ==
    /\ pc[s] = "updated"
    /\ CommitWrites(s)
    /\ tx_insert' = [tx_insert EXCEPT ![s] = <<>>]
    /\ tx_update' = [tx_update EXCEPT ![s] = {}]
    /\ pc' = [pc EXCEPT ![s] = "done"]
    /\ result' = [result EXCEPT ![s] = EvaluationSubmitted]
    /\ LET c == req[s].body.classification_result_id
           e == req[s].body.evaluator_id
       IN settled' = [settled EXCEPT ![<<c, e>>] =
                         Cardinality(EvaluationsOf(c, e)) + Len(tx_insert[s])]
    /\ UNCHANGED <<qvars, classification_results, now, req, now_ts, nsubmits>>

\* Mutant: the insert was committed on its own, so a rollback keeps it.
RollbackWrites_KeepsInsert(s) ==
    /\ human_evaluation' = human_evaluation \o tx_insert[s]
    /\ UNCHANGED evaluation_assignments
    /\ tx_insert' = [tx_insert EXCEPT ![s] = <<>>]
    /\ tx_update' = [tx_update EXCEPT ![s] = {}]

\* What db.rollback() (or the store, for a closed connection) makes of the
\* transaction's writes: nothing is kept.
RollbackWrites(s) ==
    /\ UNCHANGED tables
    /\ tx_insert' = [tx_insert EXCEPT ![s] = <<>>]
    /\ tx_update' = [tx_update EXCEPT ![s] = {}]

\* A statement (the insert, the update or the commit) raises:
\* except Exception: await db.rollback(); raise
SubmitFail(s) ==
    /\ InFlight(s)
    /\ RollbackWrites(s)
    /\ pc' = [pc EXCEPT ![s] = "done"]
    /\ result' = [result EXCEPT ![s] = ServerError]
    /\ UNCHANGED <<qvars, classification_results, now, req, now_ts, nsubmits, settled>>

\* The handler's process dies with the transaction open: the store aborts
\* the transaction of the closed connection; no response is sent.
SubmitCrash(s) ==
    /\ InFlight(s)
    /\ RollbackWrites(s)
    /\ pc' = [pc EXCEPT ![s] = "done"]
    /\ result' = [result EXCEPT ![s] = Crashed]
    /\ UNCHANGED <<qvars, classification_results, now, req, now_ts, nsubmits, settled>>

(***************************************************************************)
(* get_classification_results: one SELECT, no transaction state.           *)
(***************************************************************************)

\* classification_results cr LEFT JOIN evaluation_assignments ea
\*   ON cr.id = ea.classification_result_id
LeftJoin ==
    UNION {IF \E a \in AssignmentIds :
                 evaluation_assignments[a].classification_result_id = c.id
              THEN {[cr |-> c, ea |-> Some(a)] :
                      a \in {x \in AssignmentIds :
                          evaluation_assignments[x].classification_result_id = c.id}}
              ELSE {[cr |-> c, ea |-> NULL]} :
           c \in classification_results}

\* if evaluator_id: "ea.evaluator_id = :evaluator_id", bound to
\* str.upper(evaluator_id); a NULL ea.evaluator_id matches nothing.
ListingWhere(j, evaluator_id) ==
    \/ evaluator_id = NULL
    \/ /\ j.ea # NULL
       /\ evaluation_assignments[j.ea[1]].evaluator_id = Upper(evaluator_id[1])

\* SELECT cr.*, COALESCE(ea.is_complete, FALSE) AS is_complete, ea.evaluator_id
ListingRow(j) ==
    [id |-> j.cr.id, source_uid |-> j.cr.source_uid,
     final_category |-> j.cr.final_category,
     is_complete |-> IF j.ea = NULL THEN FALSE
                     ELSE evaluation_assignments[j.ea[1]].is_complete,
     evaluator_id |-> IF j.ea = NULL THEN NULL
                      ELSE Some(evaluation_assignments[j.ea[1]].evaluator_id)]

RECURSIVE Orderings(_)
\* Every sequence that lists each element of the finite set S once.
Orderings(S) ==
    IF S = {} THEN {<<>>}
    ELSE UNION {{<<x>> \o q : q \in Orderings(S \ {x})} : x \in S}

\* ORDER BY cr.id: the rows of one cr.id come in any order.
ListingOrders(evaluator_id) ==
    {q \in Orderings({j \in LeftJoin : ListingWhere(j, evaluator_id)}) :
        \A i \in 1..(Len(q) - 1) : q[i].cr.id <= q[i + 1].cr.id}

Min(a, b) == IF a <= b THEN a ELSE b

\* OFFSET :skip LIMIT :limit
OffsetLimit(q, skip, limit) == SubSeq(q, skip + 1, Min(Len(q), skip + limit))

GetClassificationResults(s, evaluator_id, skip, limit) ==
    /\ pc[s] = "idle"
    /\ req' = [req EXCEPT ![s] = [kind |-> "listing", evaluator_id |-> evaluator_id,
                                  skip |-> skip, limit |-> limit]]
    /\ pc' = [pc EXCEPT ![s] = "done"]
    /\ IF skip < 0 \/ limit < 0
          \* the store rejects a negative OFFSET or LIMIT; the error propagates
          THEN result' = [result EXCEPT ![s] = ServerError]
          ELSE \E q \in ListingOrders(evaluator_id) :
                  result' = [result EXCEPT ![s] =
                     RowsResponse([i \in 1..Len(OffsetLimit(q, skip, limit)) |->
                                      ListingRow(OffsetLimit(q, skip, limit)[i])])]
    /\ UNCHANGED <<qvars, classification_results, tables, now, now_ts, tx_insert,
                   tx_update, nsubmits, settled>>

\* The response is delivered; the session serves the next request.
Return(s) ==
    /\ pc[s] = "done"
    /\ pc' = [pc EXCEPT ![s] = "idle"]
    /\ req' = [req EXCEPT ![s] = NoRequest]
    /\ now_ts' = [now_ts EXCEPT ![s] = NULL]
    /\ result' = [result EXCEPT ![s] = NoResult]
    /\ UNCHANGED <<qvars, classification_results, tables, now, tx_insert, tx_update,
                   nsubmits, settled>>

Next ==
    \/ \E p \in Pairs : CreateAssignment(p[1], p[2])
    \/ Tick
    \/ \E s \in Sessions, r \in HumanEvaluationRequest : SubmitCheck(s, r)
    \/ \E s \in Sessions : SubmitInsert(s)
    \/ \E s \in Sessions : SubmitUpdate(s)
    \/ \E s \in Sessions : SubmitCommit(s)
    \/ \E s \in Sessions : SubmitFail(s)
    \/ \E s \in Sessions : SubmitCrash(s)
    \/ \E s \in Sessions, f \in EvaluatorFilters :
          GetClassificationResults(s, f, DefaultSkip, DefaultLimit)
    \/ \E s \in Sessions : Return(s)

Spec == Init /\ [][Next]_vars

(***************************************************************************)
(* The read endpoints over the source tables.  Each is one SELECT; the     *)
(* handler's answer is left in response.                                   *)
(***************************************************************************)

\* A query string value is a sequence of characters.
Digits == {"0", "1", "2", "3", "4", "5", "6", "7", "8", "9"}
DigitValue(ch) ==
    CASE ch = "0" -> 0 [] ch = "1" -> 1 [] ch = "2" -> 2 [] ch = "3" -> 3
      [] ch = "4" -> 4 [] ch = "5" -> 5 [] ch = "6" -> 6 [] ch = "7" -> 7
      [] ch = "8" -> 8 [] ch = "9" -> 9

\* regex=r"^\d{4}-\d{2}$" on start_period and end_period
MatchesPeriodRegex(p) ==
    /\ Len(p) = 7
    /\ \A i \in {1, 2, 3, 4, 6, 7} : p[i] \in Digits
    /\ p[5] = "-"

\* year, month = map(int, period.split('-'))
PeriodYear(p) ==
    DigitValue(p[1]) * 1000 + DigitValue(p[2]) * 100 + DigitValue(p[3]) * 10
       + DigitValue(p[4])
PeriodMonth(p) == DigitValue(p[6]) * 10 + DigitValue(p[7])

\* date(year, month, day) raises ValueError outside MINYEAR..MAXYEAR, 1..12
ValidYearMonth(y, m) == y >= 1 /\ y <= 9999 /\ m >= 1 /\ m <= 12

IsLeap(y) == y % 4 = 0 /\ (y % 100 # 0 \/ y % 400 = 0)
\* Mutant: February has 28 days in every year.
LastDay_NoLeapDay(y, m) ==
    CASE m \in {1, 3, 5, 7, 8, 10, 12} -> 31
      [] m \in {4, 6, 9, 11} -> 30
      [] m = 2 -> 28

\* calendar.monthrange(year, month)[1]
LastDay(y, m) ==
    CASE m \in {1, 3, 5, 7, 8, 10, 12} -> 31
      [] m \in {4, 6, 9, 11} -> 30
      [] m = 2 -> IF IsLeap(y) THEN 29 ELSE 28

\* Comparison of two dates <<year, month, day>>.
DateLeq(a, b) ==
    \/ a[1] < b[1]
    \/ a[1] = b[1] /\ a[2] < b[2]
    \/ a[1] = b[1] /\ a[2] = b[2] /\ a[3] <= b[3]

\* The query parameters of the common filters; NULL is an omitted parameter.
OperatorLists == {NULL, <<"Test Operator">>}
PhaseLists == {NULL, <<"cruise">>}
AircraftTypeLists == {NULL, <<"A320">>}
LocationLists == {NULL, <<"KJFK">>}
StartPeriods == {NULL, Some(<<"2", "0", "2", "4", "-", "0", "1">>)}
EndPeriods == {NULL, Some(<<"2", "0", "2", "3", "-", "1", "2">>)}

CommonFilters ==
    [operators : OperatorLists, phases : PhaseLists,
     aircraft_types : AircraftTypeLists, locations : LocationLists,
     start_period : StartPeriods, end_period : EndPeriods]

\* The request that supplies no filter.
NoFilter ==
    [operators |-> NULL, phases |-> NULL, aircraft_types |-> NULL,
     locations |-> NULL, start_period |-> NULL, end_period |-> NULL]

Elements(list) == {list[i] : i \in DOMAIN list}

\* Mutant: a NULL column is in every list.
InList_NullPasses(value, list) ==
    list # NULL /\ list # <<>> => (value = NULL \/ value[1] \in Elements(list))

\* "column IN :list", appended when the list is given and not empty; a NULL
\* column is in no list.
InList(value, list) ==
    list # NULL /\ list # <<>> => (value # NULL /\ value[1] \in Elements(list))

\* "sanitized_date >= :start_date" with start_date = date(year, month, 1)
FromStart(d, start_period) ==
    start_period # NULL =>
        /\ d # NULL
        /\ DateLeq(<<PeriodYear(start_period[1]), PeriodMonth(start_period[1]), 1>>,
                   d[1])
\* "sanitized_date <= :end_date" with end_date = date(year, month, last_day)
UntilEnd(d, end_period) ==
    end_period # NULL =>
        /\ d # NULL
        /\ DateLeq(d[1], <<PeriodYear(end_period[1]), PeriodMonth(end_period[1]),
                           LastDay(PeriodYear(end_period[1]),
                                   PeriodMonth(end_period[1]))>>)

\* A period parameter FastAPI rejects: it does not match the regex.
RejectedPeriod(period) == period # NULL /\ ~MatchesPeriodRegex(period[1])
\* A period parameter on which date(...) or calendar.monthrange(...) raises.
RaisingPeriod(period) ==
    /\ period # NULL
    /\ ~ValidYearMonth(PeriodYear(period[1]), PeriodMonth(period[1]))

\* The rows of the three SELECTs of get_statistics' all_incidents.
StatisticsAsnRow(r) ==
    [uid |-> Some(r.uid), sanitized_date |-> r.sanitized_date, operator |-> r.operator,
     phase |-> r.phase, aircraft_type |-> r.aircraft_type, location |-> r.location]
StatisticsAsrsRow(r) ==
    [uid |-> Some(r.uid), sanitized_date |-> r.sanitized_date, operator |-> r.operator,
     phase |-> r.phase, aircraft_type |-> r.aircraft_type, location |-> r.place]
StatisticsPciRow(r) ==
    [uid |-> Some(r.uid), sanitized_date |-> r.sanitized_date, operator |-> r.operator,
     phase |-> NULL, aircraft_type |-> r.aircraft_type, location |-> r.location]

\* a UNION ALL b UNION ALL c: every row of each, with its multiplicity.
UnionAll(a, b, c) == a (+) b (+) c

\* WITH all_incidents AS (...) of get_statistics
StatisticsAllIncidents ==
    UnionAll(BagOfAll(StatisticsAsnRow, SetToBag(asn_scraped_accidents)),
             BagOfAll(StatisticsAsrsRow, SetToBag(asrs_records)),
             BagOfAll(StatisticsPciRow, SetToBag(pci_scraped_accidents)))

\* Mutant: the WHERE clause also requires a date, a nullable column.
StatisticsWhere_DatedOnly(r, f) ==
    /\ r.uid # NULL
    /\ r.sanitized_date # NULL
    /\ InList(r.operator, f.operators)
    /\ InList(r.phase, f.phases)
    /\ InList(r.aircraft_type, f.aircraft_types)
    /\ InList(r.location, f.locations)
    /\ FromStart(r.sanitized_date, f.start_period)
    /\ UntilEnd(r.sanitized_date, f.end_period)

\* The WHERE clause get_statistics assembles.
StatisticsWhere(r, f) ==
    /\ r.uid # NULL
    /\ InList(r.operator, f.operators)
    /\ InList(r.phase, f.phases)
    /\ InList(r.aircraft_type, f.aircraft_types)
    /\ InList(r.location, f.locations)
    /\ FromStart(r.sanitized_date, f.start_period)
    /\ UntilEnd(r.sanitized_date, f.end_period)

\* The rows of a bag that satisfy a predicate, with their multiplicities.
Where(B, P(_)) == [r \in {x \in BagToSet(B) : P(x)} |-> B[r]]

\* SELECT COUNT(*) ... WHERE ...
CountAll(B) == BagCardinality(B)

GetStatistics(f) ==
    /\ response' =
          IF RejectedPeriod(f.start_period) \/ RejectedPeriod(f.end_period)
             THEN [endpoint |-> "statistics", params |-> f, status |-> 422,
                   queries |-> 0]
          ELSE IF RaisingPeriod(f.start_period) \/ RaisingPeriod(f.end_period)
             THEN [endpoint |-> "statistics", params |-> f, status |-> 500,
                   queries |-> 0]
          ELSE LET P(r) == StatisticsWhere(r, f)
               IN [endpoint |-> "statistics", params |-> f, status |-> 200,
                   queries |-> 1,
                   body |-> [total_incidents |->
                                CountAll(Where(StatisticsAllIncidents, P))]]
    /\ UNCHANGED <<stores, pvars>>

\* The year parameters of get_seasonal_distribution; NULL is omitted.
MinYear == 2022
MaxYear == 2025
YearParams == {NULL} \cup {Some(y) : y \in MinYear..MaxYear}

\* SELECT sanitized_date AS origin_date FROM each table
OriginDate(r) == [origin_date |-> r.sanitized_date]

\* WITH all_incidents AS (...) of get_seasonal_distribution
SeasonalAllIncidents ==
    UnionAll(BagOfAll(OriginDate, SetToBag(asn_scraped_accidents)),
             BagOfAll(OriginDate, SetToBag(asrs_records)),
             BagOfAll(OriginDate, SetToBag(pci_scraped_accidents)))

\* The WHERE clause get_seasonal_distribution assembles.
SeasonalWhere(r, start_year, end_year) ==
    /\ r.origin_date # NULL
    /\ start_year # NULL => r.origin_date[1][1] >= start_year[1]
    /\ end_year # NULL => r.origin_date[1][1] <= end_year[1]

\* SELECT year, month, COUNT(*) ... GROUP BY year, month
SeasonalRows(start_year, end_year) ==
    LET P(r) == SeasonalWhere(r, start_year, end_year)
        matching == Where(SeasonalAllIncidents, P)
        groups == {<<r.origin_date[1][1], r.origin_date[1][2]>> :
                      r \in BagToSet(matching)}
    IN {[year |-> g[1], month |-> g[2],
         count |-> LET G(r) == <<r.origin_date[1][1], r.origin_date[1][2]>> = g
                   IN CountAll(Where(matching, G))] : g \in groups}

\* data_map = {(row.year, row.month): row.count for row in rows}
DataMap(rows) ==
    [k \in {<<r.year, r.month>> : r \in rows} |->
        (CHOOSE r \in rows : <<r.year, r.month>> = k).count]

\* data_map.get((year, month_num), 0)
DataMapGet(data_map, year, month) ==
    IF <<year, month>> \in DOMAIN data_map THEN data_map[<<year, month>>] ELSE 0

SetMin(S) == CHOOSE x \in S : \A y \in S : x <= y
SetMax(S) == CHOOSE x \in S : \A y \in S : x >= y

\* start_year if start_year is not None else min((r.year for r in rows), default=None)
EffectiveStartYear(start_year, rows) ==
    IF start_year # NULL THEN start_year
    ELSE IF rows = {} THEN NULL ELSE Some(SetMin({r.year : r \in rows}))
\* end_year if end_year is not None else max((r.year for r in rows), default=None)
EffectiveEndYear(end_year, rows) ==
    IF end_year # NULL THEN end_year
    ELSE IF rows = {} THEN NULL ELSE Some(SetMax({r.year : r \in rows}))

\* calendar.month_abbr[1..12]
MonthAbbrs ==
    <<"Jan", "Feb", "Mar", "Apr", "May", "Jun",
      "Jul", "Aug", "Sep", "Oct", "Nov", "Dec">>

\* Mutant: the inner loop appends only the months that have a row.
MonthLoop_Sparse(data_map, year) ==
    SelectSeq([m \in 1..12 |->
                  [x |-> MonthAbbrs[m], y |-> ToString(year),
                   v |-> DataMapGet(data_map, year, m)]],
              LAMBDA e : e.v # 0)

\* for month_num, month_abbr in enumerate(month_abbrs, 1): append
MonthLoop(data_map, year) ==
    [m \in 1..12 |->
        [x |-> MonthAbbrs[m], y |-> ToString(year),
         v |-> DataMapGet(data_map, year, m)]]

\* for year in range(first, last + 1)
RECURSIVE YearLoop(_, _, _)
YearLoop(data_map, first, last) ==
    IF first > last THEN <<>>
    ELSE MonthLoop(data_map, first) \o YearLoop(data_map, first + 1, last)

\* Mutant: an empty result set returns early, whatever the parameters.
SeasonalResponseData_EmptyOnNoRows(start_year, end_year) ==
    LET rows == SeasonalRows(start_year, end_year)
        first == EffectiveStartYear(start_year, rows)
        last == EffectiveEndYear(end_year, rows)
    IN IF rows = {} \/ first = NULL \/ last = NULL THEN <<>>
       ELSE YearLoop(DataMap(rows), first[1], last[1])

SeasonalResponseData(start_year, end_year) ==
    LET rows == SeasonalRows(start_year, end_year)
        first == EffectiveStartYear(start_year, rows)
        last == EffectiveEndYear(end_year, rows)
    IN IF first = NULL \/ last = NULL THEN <<>>
       ELSE YearLoop(DataMap(rows), first[1], last[1])

GetSeasonalDistribution(start_year, end_year) ==
    /\ response' =
          [endpoint |-> "seasonal-distribution",
           params |-> [start_year |-> start_year, end_year |-> end_year],
           status |-> 200,
           body |-> SeasonalResponseData(start_year, end_year)]
    /\ UNCHANGED <<stores, pvars>>

(***************************************************************************)
(* Routing: the paths the application registers, and what a request for    *)
(* any other path gets.                                                    *)
(***************************************************************************)

\* A path is the sequence of its segments.
Routes ==
    {[method |-> "GET", path |-> <<"aggregates", "seasonal-distribution">>],
     [method |-> "GET", path |-> <<"aggregates", "risk-heatmap">>],
     [method |-> "GET", path |-> <<"airports">>],
     [method |-> "GET", path |-> <<"classification-results">>],
     [method |-> "POST", path |-> <<"full_classification_results_bulk">>],
     [method |-> "GET", path |-> <<"incidents", "classified-detailed">>],
     [method |-> "GET", path |-> <<"aggregates", "over-time">>],
     [method |-> "GET", path |-> <<"aggregates", "top-n">>],
     [method |-> "GET", path |-> <<"aggregates", "classification-over-time">>],
     [method |-> "GET", path |-> <<"incidents", "locations">>],
     [method |-> "GET", path |-> <<"aggregates", "hierarchy">>],
     [method |-> "GET", path |-> <<"aggregates", "locations-over-time">>],
     [method |-> "GET", path |-> <<"aggregates", "by-location">>],
     [method |-> "GET", path |-> <<"aggregates", "heatmap">>],
     [method |-> "GET", path |-> <<"aggregates", "statistics">>],
     [method |-> "POST", path |-> <<"human_evaluation", "submit">>]}

\* The uids a single-record request names: stored or not, known prefix or not.
LookupUids == AsnUids \cup AsrsUids \cup PciUids \cup {<<"xyz", 1>>}

\* The requests for a single record, as the spec and the dashboards spell them.
RecordRequests ==
    {[method |-> "GET", path |-> <<root, u>>] :
        root \in {"record", "full_classification_results"}, u \in LookupUids}

NotFound == [detail |-> "Not Found"]
MethodNotAllowed == [detail |-> "Method Not Allowed"]

\* A request no registered route serves.
Unrouted(request) ==
    /\ ~\E r \in Routes : r.path = request.path /\ r.method = request.method
    /\ response' =
          IF \E r \in Routes : r.path = request.path
             THEN [endpoint |-> "unrouted", params |-> request, status |-> 405,
                   body |-> MethodNotAllowed]
             ELSE [endpoint |-> "unrouted", params |-> request, status |-> 404,
                   body |-> NotFound]
    /\ UNCHANGED <<stores, pvars>>

\* Every content of the three source tables, before any request.
QueryInit ==
    /\ asn_scraped_accidents \in TableContents(AsnUids, AsnRow)
    /\ asrs_records \in TableContents(AsrsUids, AsrsRow)
    /\ pci_scraped_accidents \in TableContents(PciUids, PciRow)
    /\ classification_results = ClassificationFixture
    /\ airport_location = AirportFixture
    /\ response = NoResponse
    /\ ProtocolInit

\* One request against one content of the tables: the handlers write
\* nothing, so a later request would see the same store.
QueryNext ==
    /\ response = NoResponse
    /\ \/ \E f \in CommonFilters : GetStatistics(f)
       \/ \E start_year \in YearParams, end_year \in YearParams :
             GetSeasonalDistribution(start_year, end_year)
       \/ \E request \in RecordRequests : Unrouted(request)

QuerySpec == QueryInit /\ [][QueryNext]_vars

(***************************************************************************)
(* The aggregate endpoints over the unified incidents.                     *)
(***************************************************************************)

\* A row whose text columns hold the empty string and whose date is NULL.
BlankShape ==
    [sanitized_date |-> NULL, operator |-> Some(""), phase |-> Some(""),
     aircraft_type |-> Some(""), location |-> Some(""), narrative |-> Some("")]
IncidentShapes == RowShapes \cup {BlankShape}

\* Every content of the three source tables, rows drawn from IncidentShapes.
AsnContents ==
    UNION {{{AsnRow(u, f[u]) : u \in D} : f \in [D -> IncidentShapes]} :
              D \in SUBSET AsnUids}
AsrsContents ==
    UNION {{{AsrsRow(u, f[u]) : u \in D} : f \in [D -> IncidentShapes]} :
              D \in SUBSET AsrsUids}
PciContents ==
    UNION {{{PciRow(u, f[u]) : u \in D} : f \in [D -> IncidentShapes]} :
              D \in SUBSET PciUids}

\* One classification row per incident: two weather incidents and a bird strike.
ClassifiedFixture ==
    ClassificationFixture
       \cup {[id |-> 103, source_uid |-> <<"asn", 2>>, final_category |-> "Weather"]}

AggregateInit ==
    /\ asn_scraped_accidents \in AsnContents
    /\ asrs_records \in AsrsContents
    /\ pci_scraped_accidents \in PciContents
    /\ classification_results = ClassifiedFixture
    /\ airport_location = AirportFixture
    /\ response = NoResponse
    /\ ProtocolInit

\* The SELECTs of an all_incidents CTE, with every column an endpoint reads.
IncidentOfAsn(r) ==
    [uid |-> r.uid, summary |-> r.narrative, origin_date |-> r.sanitized_date,
     phase |-> r.phase, aircraft_type |-> r.aircraft_type,
     location |-> r.location, operator |-> r.operator]
IncidentOfAsrs(r) ==
    [uid |-> r.uid, summary |-> r.synopsis, origin_date |-> r.sanitized_date,
     phase |-> r.phase, aircraft_type |-> r.aircraft_type,
     location |-> r.place, operator |-> r.operator]
IncidentOfPci(r) ==
    [uid |-> r.uid, summary |-> r.summary, origin_date |-> r.sanitized_date,
     phase |-> NULL, aircraft_type |-> r.aircraft_type,
     location |-> r.location, operator |-> r.operator]

\* WITH all_incidents AS (asn UNION ALL asrs UNION ALL pci)
AllIncidents ==
    UnionAll(BagOfAll(IncidentOfAsn, SetToBag(asn_scraped_accidents)),
             BagOfAll(IncidentOfAsrs, SetToBag(asrs_records)),
             BagOfAll(IncidentOfPci, SetToBag(pci_scraped_accidents)))

\* classification_results cr JOIN <source table> origin ON cr.source_uid =
\* origin.uid, over the three tables: one row per matching pair.
ClassifiedIncidents ==
    SetToBag({[id |-> c.id, final_category |-> Some(c.final_category),
               uid |-> r.uid, summary |-> r.summary, origin_date |-> r.origin_date,
               phase |-> r.phase, aircraft_type |-> r.aircraft_type,
               location |-> r.location, operator |-> r.operator] :
                 <<c, r>> \in {x \in classification_results \X BagToSet(AllIncidents) :
                                  x[1].source_uid = x[2].uid}})

\* The column of a row a query names.
Column(r, name) ==
    CASE name = "operator" -> r.operator
      [] name = "aircraft_type" -> r.aircraft_type
      [] name = "phase" -> r.phase
      [] name = "location" -> r.location
      [] name = "final_category" -> r.final_category

\* What the handler does with the period parameters: FastAPI rejects a
\* mismatch of the regex with 422; date(...) and calendar.monthrange(...)
\* raise ValueError, answered 500; otherwise the handler goes on (200).
PeriodStatus(f) ==
    IF RejectedPeriod(f.start_period) \/ RejectedPeriod(f.end_period) THEN 422
    ELSE IF RaisingPeriod(f.start_period) \/ RaisingPeriod(f.end_period) THEN 500
    ELSE 200

\* The filter clauses every filtered endpoint appends alike.
SharedWhere(r, f) ==
    /\ InList(r.operator, f.operators)
    /\ InList(r.phase, f.phases)
    /\ InList(r.aircraft_type, f.aircraft_types)
    /\ FromStart(r.origin_date, f.start_period)
    /\ UntilEnd(r.origin_date, f.end_period)

\* "<column> IS NOT NULL"
IsNotNull(v) == v # NULL
\* "<column> != ''", which a NULL does not satisfy
IsNotEmpty(v) == v # NULL /\ v[1] # ""

\* A sequence's first n elements.
Limit(q, n) == SubSeq(q, 1, Min(Len(q), n))

\* The categories and sizes of get_top_n_aggregates.
TopNCategories == {"operator", "aircraft_type", "phase", "final_category", "location"}
MinN == 1
MaxN == 100
TopNSizes == {0, 1, 2, 101}

\* The number of filters a request supplies.
FilterCount(f) ==
    (IF f.operators = NULL THEN 0 ELSE 1) + (IF f.phases = NULL THEN 0 ELSE 1)
       + (IF f.aircraft_types = NULL THEN 0 ELSE 1)
       + (IF f.locations = NULL THEN 0 ELSE 1)
       + (IF f.start_period = NULL THEN 0 ELSE 1)
       + (IF f.end_period = NULL THEN 0 ELSE 1)

\* The requests of the top-n runs supply at most one filter.
TopNFilters == {f \in CommonFilters : FilterCount(f) <= 1}

\* The WHERE clause get_top_n_aggregates assembles.
TopNWhere(r, category, f) ==
    /\ IsNotNull(Column(r, category))
    /\ IsNotEmpty(Column(r, category))
    /\ SharedWhere(r, f)
    /\ InList(r.location, f.locations)

\* SELECT <column> AS category_value, COUNT(*) AS incident_count ... GROUP BY
TopNGroups(category, f) ==
    LET P(r) == TopNWhere(r, category, f)
        matching == Where(IF category = "final_category" THEN ClassifiedIncidents
                          ELSE AllIncidents, P)
    IN {[category_value |-> v,
         incident_count |-> LET G(r) == Column(r, category) = v
                            IN CountAll(Where(matching, G))] :
           v \in {Column(r, category) : r \in BagToSet(matching)}}

\* Mutant: ORDER BY incident_count (ascending).
TopNOrders_Ascending(category, f) ==
    {q \in Orderings(TopNGroups(category, f)) :
        \A i \in 1..(Len(q) - 1) : q[i].incident_count <= q[i + 1].incident_count}

\* ORDER BY incident_count DESC: groups of equal count come in any order.
TopNOrders(category, f) ==
    {q \in Orderings(TopNGroups(category, f)) :
        \A i \in 1..(Len(q) - 1) : q[i].incident_count >= q[i + 1].incident_count}

GetTopNAggregates(category, n, f) ==
    /\ LET params == [category |-> category, n |-> n, filters |-> f]
       IN IF n < MinN \/ n > MaxN \/ PeriodStatus(f) = 422
             THEN response' = [endpoint |-> "top-n", params |-> params,
                               status |-> 422, queries |-> 0]
          ELSE IF PeriodStatus(f) = 500
             THEN response' = [endpoint |-> "top-n", params |-> params,
                               status |-> 500, queries |-> 0]
          ELSE \E q \in TopNOrders(category, f) :
                  response' = [endpoint |-> "top-n", params |-> params,
                               status |-> 200, queries |-> 1,
                               body |-> Limit(q, n)]
    /\ UNCHANGED <<stores, pvars>>

\* One top-n request against one content of the tables.
TopNNext ==
    /\ response = NoResponse
    /\ \E category \in TopNCategories, n \in TopNSizes, f \in TopNFilters :
          GetTopNAggregates(category, n, f)

TopNSpec == AggregateInit /\ [][TopNNext]_vars

\* Period values that are no year-month: too short, month 13, month 00,
\* year 0000.
MalformedPeriods ==
    {<<"2", "0", "2", "4", "-", "1">>,
     <<"2", "0", "2", "4", "-", "1", "3">>,
     <<"2", "0", "2", "4", "-", "0", "0">>,
     <<"0", "0", "0", "0", "-", "0", "1">>}

\* The requests whose only filter is a malformed period.
MalformedFilters ==
    {[NoFilter EXCEPT !.start_period = Some(p)] : p \in MalformedPeriods}
       \cup {[NoFilter EXCEPT !.end_period = Some(p)] : p \in MalformedPeriods}

HeatmapDimensions == {"operator", "aircraft_type", "phase"}
HeatmapFilters == TopNFilters \cup MalformedFilters

\* Mutant: the equal-dimensions check is missing.
SameDimension_Unchecked(dimension1, dimension2) == FALSE

\* if dimension1 == dimension2: return []
SameDimension(dimension1, dimension2) == dimension1 = dimension2

\* The WHERE clause get_heatmap_aggregates assembles.
HeatmapWhere(r, dimension1, dimension2, f) ==
    /\ IsNotNull(Column(r, dimension1))
    /\ IsNotNull(Column(r, dimension2))
    /\ SharedWhere(r, f)
    /\ InList(r.location, f.locations)

\* SELECT dim1, dim2, COUNT(*) ... GROUP BY dim1, dim2
HeatmapGroups(dimension1, dimension2, f) ==
    LET P(r) == HeatmapWhere(r, dimension1, dimension2, f)
        matching == Where(AllIncidents, P)
    IN {[dim1_value |-> g[1], dim2_value |-> g[2],
         incident_count |->
            LET G(r) == <<Column(r, dimension1), Column(r, dimension2)>> = g
            IN CountAll(Where(matching, G))] :
           g \in {<<Column(r, dimension1), Column(r, dimension2)>> :
                     r \in BagToSet(matching)}}

\* ORDER BY incident_count DESC
HeatmapOrders(dimension1, dimension2, f) ==
    {q \in Orderings(HeatmapGroups(dimension1, dimension2, f)) :
        \A i \in 1..(Len(q) - 1) : q[i].incident_count >= q[i + 1].incident_count}

GetHeatmapAggregates(dimension1, dimension2, f) ==
    /\ LET params == [dimension1 |-> dimension1, dimension2 |-> dimension2,
                      filters |-> f]
       IN IF PeriodStatus(f) = 422
             THEN response' = [endpoint |-> "heatmap", params |-> params,
                               status |-> 422, queries |-> 0]
          ELSE IF SameDimension(dimension1, dimension2)
             THEN response' = [endpoint |-> "heatmap", params |-> params,
                               status |-> 200, queries |-> 0, body |-> <<>>]
          ELSE IF PeriodStatus(f) = 500
             THEN response' = [endpoint |-> "heatmap", params |-> params,
                               status |-> 500, queries |-> 0]
          ELSE \E q \in HeatmapOrders(dimension1, dimension2, f) :
                  response' = [endpoint |-> "heatmap", params |-> params,
                               status |-> 200, queries |-> 1, body |-> q]
    /\ UNCHANGED <<stores, pvars>>

\* One heatmap request against one content of the tables.
HeatmapNext ==
    /\ response = NoResponse
    /\ \E dimension1 \in HeatmapDimensions, dimension2 \in HeatmapDimensions,
          f \in HeatmapFilters :
          GetHeatmapAggregates(dimension1, dimension2, f)

HeatmapSpec == AggregateInit /\ [][HeatmapNext]_vars

\* The character of a decimal digit.
DigitChar(d) ==
    CASE d = 0 -> "0" [] d = 1 -> "1" [] d = 2 -> "2" [] d = 3 -> "3"
      [] d = 4 -> "4" [] d = 5 -> "5" [] d = 6 -> "6" [] d = 7 -> "7"
      [] d = 8 -> "8" [] d = 9 -> "9"

\* TO_CHAR(origin_date, 'YYYY-MM') for a year of at most four digits
ToCharYearMonth(d) ==
    <<DigitChar(d[1] \div 1000), DigitChar((d[1] \div 100) % 10),
      DigitChar((d[1] \div 10) % 10), DigitChar(d[1] % 10), "-",
      DigitChar(d[2] \div 10), DigitChar(d[2] % 10)>>

\* The code point of a character of a period.
CharCode(ch) == IF ch = "-" THEN 45 ELSE 48 + DigitValue(ch)

\* a < b for two texts, character by character
TextLess(a, b) ==
    \/ \E k \in 1..Min(Len(a), Len(b)) :
          /\ \A j \in 1..(k - 1) : a[j] = b[j]
          /\ CharCode(a[k]) < CharCode(b[k])
    \/ /\ Len(a) < Len(b)
       /\ \A j \in 1..Len(a) : a[j] = b[j]

OverTimePeriods == {"year", "month"}
\* get_aggregates_over_time takes no locations parameter.
OverTimeFilters == {f \in HeatmapFilters : f.locations = NULL}

\* EXTRACT(YEAR FROM origin_date) or TO_CHAR(origin_date, 'YYYY-MM')
PeriodStart(d, period) == IF period = "year" THEN d[1] ELSE ToCharYearMonth(d)

\* ORDER BY period_start
PeriodBefore(a, b, period) == IF period = "year" THEN a < b ELSE TextLess(a, b)

\* The WHERE clause get_aggregates_over_time assembles.
OverTimeWhere(r, f) ==
    /\ IsNotNull(r.origin_date)
    /\ SharedWhere(r, f)

\* SELECT <period expression> AS period_start, COUNT(*) ... GROUP BY period_start
OverTimeGroups(period, f) ==
    LET P(r) == OverTimeWhere(r, f)
        matching == Where(AllIncidents, P)
    IN {[period_start |-> g,
         incident_count |-> LET G(r) == PeriodStart(r.origin_date[1], period) = g
                            IN CountAll(Where(matching, G))] :
           g \in {PeriodStart(r.origin_date[1], period) : r \in BagToSet(matching)}}

\* Mutant: ORDER BY period_start DESC.
OverTimeOrders_Descending(period, f) ==
    {q \in Orderings(OverTimeGroups(period, f)) :
        \A i \in 1..(Len(q) - 1) :
            PeriodBefore(q[i + 1].period_start, q[i].period_start, period)}

OverTimeOrders(period, f) ==
    {q \in Orderings(OverTimeGroups(period, f)) :
        \A i \in 1..(Len(q) - 1) :
            PeriodBefore(q[i].period_start, q[i + 1].period_start, period)}

GetAggregatesOverTime(period, f) ==
    /\ LET params == [period |-> period, filters |-> f]
       IN IF PeriodStatus(f) # 200
             THEN response' = [endpoint |-> "over-time", params |-> params,
                               status |-> PeriodStatus(f), queries |-> 0]
          ELSE \E q \in OverTimeOrders(period, f) :
                  response' = [endpoint |-> "over-time", params |-> params,
                               status |-> 200, queries |-> 1, body |-> q]
    /\ UNCHANGED <<stores, pvars>>

\* One over-time request against one content of the tables.
OverTimeNext ==
    /\ response = NoResponse
    /\ \E period \in OverTimePeriods, f \in OverTimeFilters :
          GetAggregatesOverTime(period, f)

OverTimeSpec == AggregateInit /\ [][OverTimeNext]_vars

\* Dates on either side of a month's end: February of a common year, of a
\* leap year, of 1900 (no leap year) and of 2000 (a leap year), months of 30
\* and of 31 days, and the turn of a year.
BoundaryDates ==
    {<<2023, 2, 28>>, <<2023, 3, 1>>, <<2024, 1, 31>>, <<2024, 2, 1>>,
     <<2024, 2, 29>>, <<2024, 3, 1>>, <<2024, 4, 30>>, <<2024, 5, 1>>,
     <<1900, 2, 28>>, <<1900, 3, 1>>, <<2000, 2, 29>>, <<2000, 3, 1>>,
     <<2024, 12, 31>>, <<2025, 1, 1>>}

BoundaryPeriods ==
    {<<"2", "0", "2", "3", "-", "0", "2">>, <<"2", "0", "2", "4", "-", "0", "1">>,
     <<"2", "0", "2", "4", "-", "0", "2">>, <<"2", "0", "2", "4", "-", "0", "4">>,
     <<"1", "9", "0", "0", "-", "0", "2">>, <<"2", "0", "0", "0", "-", "0", "2">>,
     <<"2", "0", "2", "4", "-", "1", "2">>}

\* The requests that supply start_period, end_period or both for one month.
WindowFilters ==
    UNION {{[NoFilter EXCEPT !.start_period = Some(p)],
            [NoFilter EXCEPT !.end_period = Some(p)],
            [NoFilter EXCEPT !.start_period = Some(p), !.end_period = Some(p)]} :
              p \in BoundaryPeriods}

\* One accident and one safety report, dated on either side of a month's end.
MonthWindowInit ==
    /\ asn_scraped_accidents \in
          {{AsnRow(<<"asn", 1>>, [CruiseShape EXCEPT !.sanitized_date = Some(d)])} :
              d \in BoundaryDates}
    /\ asrs_records \in
          {{AsrsRow(<<"asrs", 1>>, [ApproachShape EXCEPT !.sanitized_date = Some(d)])} :
              d \in {<<2024, 2, 29>>, <<2024, 3, 1>>}}
    /\ pci_scraped_accidents = {}
    /\ classification_results = ClassifiedFixture
    /\ airport_location = AirportFixture
    /\ response = NoResponse
    /\ ProtocolInit

MonthWindowNext ==
    /\ response = NoResponse
    /\ \E period \in OverTimePeriods, f \in WindowFilters :
          GetAggregatesOverTime(period, f)

MonthWindowSpec == MonthWindowInit /\ [][MonthWindowNext]_vars

\* LOWER(...) and str.lower() over the location codes of the model.
Lower(s) ==
    CASE s = "KJFK" -> "kjfk"
      [] s = "EGLL" -> "egll"
      [] OTHER -> s

\* Airport rows with coordinates.
KennedyLocated ==
    [icao_code |-> "kjfk", name |-> Some("John F. Kennedy International Airport"),
     lat |-> Some(41), lon |-> Some(-74)]
HeathrowLocated ==
    [icao_code |-> "egll", name |-> Some("London Heathrow Airport"),
     lat |-> Some(51), lon |-> Some(0)]

\* The contents of airport_location: codes are stored lower-cased; an
\* airport may have no coordinates.
AirportContents ==
    {{}, AirportFixture, {KennedyLocated}, {HeathrowLocated},
     {KennedyLocated, HeathrowLocated}}

LocationsInit ==
    /\ asn_scraped_accidents \in AsnContents
    /\ asrs_records \in AsrsContents
    /\ pci_scraped_accidents \in PciContents
    /\ classification_results = ClassifiedFixture
    /\ airport_location \in AirportContents
    /\ response = NoResponse
    /\ ProtocolInit

\* The WHERE clause get_aggregates_by_location assembles: the handler
\* declares no locations parameter, so one in the query string is not read.
ByLocationWhere(r, f) ==
    /\ IsNotNull(r.location)
    /\ IsNotEmpty(r.location)
    /\ SharedWhere(r, f)

\* SELECT location, COUNT(*) AS incident_count ... GROUP BY location
ByLocationGroups(f) ==
    LET P(r) == ByLocationWhere(r, f)
        matching == Where(AllIncidents, P)
    IN {[location |-> v,
         incident_count |-> LET G(r) == r.location = v
                            IN CountAll(Where(matching, G))] :
           v \in {r.location : r \in BagToSet(matching)}}

\* ORDER BY incident_count DESC
ByLocationOrders(f) ==
    {q \in Orderings(ByLocationGroups(f)) :
        \A i \in 1..(Len(q) - 1) : q[i].incident_count >= q[i + 1].incident_count}

GetAggregatesByLocation(f) ==
    /\ IF PeriodStatus(f) # 200
          THEN response' = [endpoint |-> "by-location", params |-> [filters |-> f],
                            status |-> PeriodStatus(f), queries |-> 0]
       ELSE \E q \in ByLocationOrders(f) :
               response' = [endpoint |-> "by-location", params |-> [filters |-> f],
                            status |-> 200, queries |-> 1, body |-> q]
    /\ UNCHANGED <<stores, pvars>>

\* The columns of al the query reads; all NULL for an incident the LEFT
\* JOIN pairs with no airport.
AirportColumns(al) == [name |-> al.name, lat |-> al.lat, lon |-> al.lon]
NoAirport == [name |-> NULL, lat |-> NULL, lon |-> NULL]

\* all_incidents inc LEFT JOIN airport_location al ON inc.location =
\* al.icao_code: the comparison of two texts is exact.  The rows of
\* all_incidents differ in uid, so the pairs form a set.
LocationsJoin ==
    LET incs == BagToSet(AllIncidents)
        Matches(inc) == {al \in airport_location :
                            inc.location # NULL /\ inc.location[1] = al.icao_code}
    IN {<<x[1], AirportColumns(x[2])>> :
           x \in {y \in incs \X airport_location : y[2] \in Matches(y[1])}}
          \cup {<<inc, NoAirport>> : inc \in {i \in incs : Matches(i) = {}}}

\* The WHERE clause get_incident_locations assembles; no locations parameter.
LocationsWhere(inc, al, f) ==
    /\ IsNotNull(al.lat)
    /\ IsNotNull(al.lon)
    /\ SharedWhere(inc, f)

\* SELECT inc.uid, inc.summary, inc.origin_date, inc.operator, al.lat, al.lon,
\* al.name AS location_name
LocationsRows(f) ==
    {[uid |-> j[1].uid, summary |-> j[1].summary, origin_date |-> j[1].origin_date,
      operator |-> j[1].operator, lat |-> j[2].lat, lon |-> j[2].lon,
      location_name |-> j[2].name] :
        j \in {x \in LocationsJoin : LocationsWhere(x[1], x[2], f)}}

\* ORDER BY inc.origin_date DESC: PostgreSQL puts NULL first when descending.
LocationsOrders(f) ==
    {q \in Orderings(LocationsRows(f)) :
        \A i \in 1..(Len(q) - 1) :
           \/ q[i].origin_date = NULL
           \/ /\ q[i + 1].origin_date # NULL
              /\ DateLeq(q[i + 1].origin_date[1], q[i].origin_date[1])}

GetIncidentLocations(f) ==
    /\ IF PeriodStatus(f) # 200
          THEN response' = [endpoint |-> "incident-locations",
                            params |-> [filters |-> f],
                            status |-> PeriodStatus(f), queries |-> 0]
       ELSE \E q \in LocationsOrders(f) :
               response' = [endpoint |-> "incident-locations",
                            params |-> [filters |-> f],
                            status |-> 200, queries |-> 1, body |-> q]
    /\ UNCHANGED <<stores, pvars>>

\* all_incidents inc JOIN airport_location al ON LOWER(inc.location) =
\* LOWER(al.icao_code).  This CTE selects no uid; the rows are taken with
\* theirs, which keeps one pair per stored row.
LocationsOverTimeJoin ==
    {<<inc, al>> \in BagToSet(AllIncidents) \X airport_location :
        inc.location # NULL /\ Lower(inc.location[1]) = Lower(al.icao_code)}

\* "LOWER(inc.location) IN :locations" with every given location lower-cased
InLoweredList(value, list) ==
    list # NULL /\ list # <<>> =>
        (value # NULL /\ Lower(value[1]) \in {Lower(l) : l \in Elements(list)})

\* The WHERE clause get_locations_over_time_aggregates assembles.
LocationsOverTimeWhere(inc, f) ==
    /\ IsNotNull(inc.location)
    /\ IsNotNull(inc.origin_date)
    /\ SharedWhere(inc, f)
    /\ InLoweredList(inc.location, f.locations)

\* GROUP BY al.lat, al.lon, al.name, period
LocationsOverTimeKey(j) ==
    <<j[2].lat, j[2].lon, j[2].name, ToCharYearMonth(j[1].origin_date[1])>>

\* SELECT al.lat, al.lon, al.name AS location_name, TO_CHAR(...) AS period,
\* COUNT(*) AS incident_count
LocationsOverTimeGroups(f) ==
    LET matching == {j \in LocationsOverTimeJoin : LocationsOverTimeWhere(j[1], f)}
    IN {[lat |-> g[1], lon |-> g[2], location_name |-> g[3], period |-> g[4],
         incident_count |->
            Cardinality({j \in matching : LocationsOverTimeKey(j) = g})] :
           g \in {LocationsOverTimeKey(j) : j \in matching}}

\* ORDER BY period, incident_count DESC
LocationsOverTimeOrders(f) ==
    {q \in Orderings(LocationsOverTimeGroups(f)) :
        \A i \in 1..(Len(q) - 1) :
           \/ TextLess(q[i].period, q[i + 1].period)
           \/ /\ q[i].period = q[i + 1].period
              /\ q[i].incident_count >= q[i + 1].incident_count}

GetLocationsOverTimeAggregates(f) ==
    /\ IF PeriodStatus(f) # 200
          THEN response' = [endpoint |-> "locations-over-time",
                            params |-> [filters |-> f],
                            status |-> PeriodStatus(f), queries |-> 0]
       ELSE \E q \in LocationsOverTimeOrders(f) :
               response' = [endpoint |-> "locations-over-time",
                            params |-> [filters |-> f],
                            status |-> 200, queries |-> 1, body |-> q]
    /\ UNCHANGED <<stores, pvars>>

\* One request of a location endpoint against one content of the tables.
LocationsNext ==
    /\ response = NoResponse
    /\ \E f \in HeatmapFilters :
          \/ GetAggregatesByLocation(f)
          \/ GetIncidentLocations(f)
          \/ GetLocationsOverTimeAggregates(f)

LocationsSpec == LocationsInit /\ [][LocationsNext]_vars

\* The rows classification_results is drawn from: source_uid is neither
\* unique nor a foreign key, so an incident may have two rows and a row may
\* name an incident no table holds.
ClassificationPool ==
    ClassifiedFixture
       \cup {[id |-> 104, source_uid |-> <<"asn", 1>>, final_category |-> "Weather"],
             [id |-> 105, source_uid |-> <<"pci", 1>>, final_category |-> "Bird Strike"]}
ClassificationContents == SUBSET ClassificationPool

BulkInit ==
    /\ asn_scraped_accidents \in TableContents(AsnUids, AsnRow)
    /\ asrs_records \in TableContents(AsrsUids, AsrsRow)
    /\ pci_scraped_accidents \in TableContents(PciUids, PciRow)
    /\ classification_results \in ClassificationContents
    /\ airport_location = AirportFixture
    /\ response = NoResponse
    /\ ProtocolInit

\* The JSON bodies of the bulk requests: the empty list, known and unknown
\* uids, a uid given twice.
BulkRequests ==
    {<<>>, <<<<"asn", 1>>>>, <<<<"asrs", 1>>, <<"asn", 1>>>>,
     <<<<"asn", 1>>, <<"asn", 1>>>>, <<<<"pci", 1>>, <<"asn", 2>>>>,
     <<<<"asn", 1>>, <<"unknown", 1>>>>}

\* {} in the response
EmptyObject == [k \in {} |-> k]

\* Mutant: the narrative column is selected AS origin_location and the
\* location column AS origin_narrative.
BulkRow_ColumnsSwapped(cr, origin) ==
    [id |-> cr.id, source_uid |-> cr.source_uid, final_category |-> cr.final_category,
     origin_uid |-> origin.uid, origin_date |-> origin.origin_date,
     origin_phase |-> origin.phase, origin_aircraft_type |-> origin.aircraft_type,
     origin_location |-> origin.summary, origin_operator |-> origin.operator,
     origin_narrative |-> origin.location]

\* SELECT cr.*, origin.uid AS origin_uid, ... of one classification row and
\* one row of all three SELECTs' origin, its columns named as in an incident.
BulkRow(cr, origin) ==
    [id |-> cr.id, source_uid |-> cr.source_uid, final_category |-> cr.final_category,
     origin_uid |-> origin.uid, origin_date |-> origin.origin_date,
     origin_phase |-> origin.phase, origin_aircraft_type |-> origin.aircraft_type,
     origin_location |-> origin.location, origin_operator |-> origin.operator,
     origin_narrative |-> origin.summary]

\* Mutant: LEFT JOIN, a classification row without origin is kept.
BulkRows_LeftJoin(uids) ==
    LET requested == {cr \in classification_results : cr.source_uid \in Elements(uids)}
        Origins(cr) == {i \in BagToSet(AllIncidents) : i.uid = cr.source_uid}
    IN {BulkRow(x[1], x[2]) :
           x \in {y \in requested \X BagToSet(AllIncidents) : y[2] \in Origins(y[1])}}
          \cup {BulkRow(cr, [IncidentOfPci(PciRow(cr.source_uid, NullShape))
                                EXCEPT !.uid = NULL]) :
                   cr \in {c \in requested : Origins(c) = {}}}

\* classification_results cr JOIN <table> origin ON origin.uid =
\* cr.source_uid WHERE cr.source_uid IN :uids, over the three tables with
\* UNION ALL.  Rows differ in cr.id, so they form a set.
BulkRows(uids) ==
    {BulkRow(x[1], x[2]) :
        x \in {y \in classification_results \X BagToSet(AllIncidents) :
                  /\ y[2].uid = y[1].source_uid
                  /\ y[1].source_uid \in Elements(uids)}}

\* The values of a column of the result; pandas leaves None out of nunique()
\* and value_counts().
OperatorValues(rows) ==
    {r.origin_operator[1] : r \in {x \in rows : x.origin_operator # NULL}}
AircraftTypeValues(rows) ==
    {r.origin_aircraft_type[1] : r \in {x \in rows : x.origin_aircraft_type # NULL}}
PhaseValues(rows) ==
    {r.origin_phase[1] : r \in {x \in rows : x.origin_phase # NULL}}

\* The aggregates pandas computes over a non-empty result.
BulkAggregates(rows) ==
    IF rows = {} THEN EmptyObject
    ELSE [total_incidents |-> Cardinality(rows),
          unique_operators |-> Cardinality(OperatorValues(rows)),
          unique_aircraft_types |-> Cardinality(AircraftTypeValues(rows)),
          phase_counts |->
             [v \in PhaseValues(rows) |->
                 Cardinality({r \in rows : r.origin_phase = Some(v)})],
          operator_counts |->
             [v \in OperatorValues(rows) |->
                 Cardinality({r \in rows : r.origin_operator = Some(v)})]]

\* {row["source_uid"]: row for row in results}: of the rows of one
\* source_uid the last of the result stays, and the result has no order.
BulkResults(rows) ==
    {d \in [{r.source_uid : r \in rows} -> rows] :
        \A u \in DOMAIN d : d[u].source_uid = u}

GetFullClassificationResultsBulk(uids) ==
    /\ IF uids = <<>>
          THEN response' = [endpoint |-> "bulk", params |-> [uids |-> uids],
                            status |-> 200, queries |-> 0,
                            body |-> [results |-> EmptyObject,
                                      aggregates |-> EmptyObject]]
       ELSE \E d \in BulkResults(BulkRows(uids)) :
               response' = [endpoint |-> "bulk", params |-> [uids |-> uids],
                            status |-> 200, queries |-> 1,
                            body |-> [results |-> d,
                                      aggregates |-> BulkAggregates(BulkRows(uids))]]
    /\ UNCHANGED <<stores, pvars>>

\* One bulk request against one content of the tables.
BulkNext ==
    /\ response = NoResponse
    /\ \E uids \in BulkRequests : GetFullClassificationResultsBulk(uids)

BulkSpec == BulkInit /\ [][BulkNext]_vars

\* The largest limit any endpoint declares (le=5000, get_risk_heatmap).
MaxDeclaredLimit == 5000
\* skip and limit of the GET /classification-results requests: any int is
\* accepted by the declaration "skip: int = 0, limit: int = 100".
SkipParams == {-1, DefaultSkip, 1}
LimitParams == {1, DefaultLimit, MaxDeclaredLimit + 1}

\* Listings with any skip and limit, over the assignments the external
\* process creates.
PaginationNext ==
    \/ \E p \in Pairs : CreateAssignment(p[1], p[2])
    \/ \E s \in Sessions, f \in EvaluatorFilters, skip \in SkipParams,
          limit \in LimitParams :
          GetClassificationResults(s, f, skip, limit)
    \/ \E s \in Sessions : Return(s)

PaginationSpec == Init /\ [][PaginationNext]_vars

(***************************************************************************)
(* The SQL text the handlers assemble: a sequence of fragments, and the    *)
(* parameters bound to its placeholders.                                   *)
(***************************************************************************)

\* Values a caller sends in a filter, two for each.
HostileText == "x' OR '1'='1"
SqlFilterValues ==
    [operators |-> {<<"Test Operator">>, <<HostileText>>},
     phases |-> {<<"cruise">>, <<HostileText>>},
     aircraft_types |-> {<<"A320">>, <<HostileText>>},
     locations |-> {<<"KJFK">>, <<HostileText>>},
     start_period |-> {Some(<<"2", "0", "2", "4", "-", "0", "1">>),
                       Some(<<"2", "0", "2", "3", "-", "1", "2">>)},
     end_period |-> {Some(<<"2", "0", "2", "4", "-", "0", "1">>),
                     Some(<<"2", "0", "2", "3", "-", "1", "2">>)}]
\* The requests that supply no filter or one, with either value.
SqlFilters ==
    {NoFilter} \cup
    UNION {{[NoFilter EXCEPT ![k] = v] : v \in SqlFilterValues[k]} :
              k \in DOMAIN SqlFilterValues}

\* Mutant: the list's first value is written into the text.
InClause_Interpolated(column, name, list) ==
    IF list # NULL /\ list # <<>> THEN <<<<column, "IN", list[1]>>>> ELSE <<>>

\* if <list>: where_clauses.append("<column> IN :<name>")
InClause(column, name, list) ==
    IF list # NULL /\ list # <<>> THEN <<<<column, "IN", ":", name>>>> ELSE <<>>

\* The clauses the six "if <filter>:" blocks append, in the code's order.
FilterClauses(f) ==
    InClause("operator", "operators", f.operators)
       \o InClause("phase", "phases", f.phases)
       \o InClause("aircraft_type", "aircraft_types", f.aircraft_types)
       \o InClause("location", "locations", f.locations)
       \o (IF f.start_period # NULL
              THEN <<<<"origin_date", ">=", ":", "start_date">>>> ELSE <<>>)
       \o (IF f.end_period # NULL
              THEN <<<<"origin_date", "<=", ":", "end_date">>>> ELSE <<>>)

\* params[...] = ... of the same six blocks: placeholder name and value.
FilterParams(f) ==
    (IF f.operators # NULL THEN {<<"operators", f.operators>>} ELSE {})
       \cup (IF f.phases # NULL THEN {<<"phases", f.phases>>} ELSE {})
       \cup (IF f.aircraft_types # NULL
                THEN {<<"aircraft_types", f.aircraft_types>>} ELSE {})
       \cup (IF f.locations # NULL THEN {<<"locations", f.locations>>} ELSE {})
       \cup (IF f.start_period # NULL
                THEN {<<"start_date", <<PeriodYear(f.start_period[1]),
                                        PeriodMonth(f.start_period[1]), 1>>>>}
                ELSE {})
       \cup (IF f.end_period # NULL
                THEN {<<"end_date", <<PeriodYear(f.end_period[1]),
                                      PeriodMonth(f.end_period[1]),
                                      LastDay(PeriodYear(f.end_period[1]),
                                              PeriodMonth(f.end_period[1]))>>>>}
                ELSE {})

RECURSIVE JoinAnd(_)
\* " AND ".join(where_clauses)
JoinAnd(clauses) ==
    IF Len(clauses) = 0 THEN <<>>
    ELSE IF Len(clauses) = 1 THEN clauses[1]
    ELSE clauses[1] \o <<"AND">> \o JoinAnd(Tail(clauses))

\* A request answered without a statement being assembled.
NoQuery(status) == [status |-> status, text |-> <<>>, params |-> {}]

\* category_map of get_top_n_aggregates and col_map of get_heatmap_aggregates.
CategoryMap ==
    [operator |-> "operator", aircraft_type |-> "aircraft_type", phase |-> "phase",
     location |-> "location", final_category |-> "final_category"]
ColMap ==
    [operator |-> "operator", aircraft_type |-> "aircraft_type", phase |-> "phase"]

\* The category, dimension and n values of the requests: the declared
\* choices and a text that is none of them.
SqlCategoryParams == TopNCategories \cup {HostileText}
SqlDimensionParams == HeatmapDimensions \cup {HostileText}
SqlSizes == {MinN, MaxN}

\* The statement get_top_n_aggregates assembles; a category outside the
\* Literal is answered 422 by the validation.
TopNQuery(category, n, f) ==
    IF category \notin TopNCategories \/ n < MinN \/ n > MaxN \/ PeriodStatus(f) = 422
       THEN NoQuery(422)
    ELSE IF category \notin DOMAIN CategoryMap THEN NoQuery(200)
    ELSE IF PeriodStatus(f) = 500 THEN NoQuery(500)
    ELSE LET group_by_col == CategoryMap[category]
         IN [status |-> 200,
             text |->
                <<IF category = "final_category"
                     THEN "WITH all_incidents AS (classification_results JOIN asn UNION ALL JOIN asrs UNION ALL JOIN pci)"
                     ELSE "WITH all_incidents AS (asn UNION ALL asrs UNION ALL pci)",
                  "SELECT", group_by_col,
                  "AS category_value, COUNT(*) AS incident_count FROM all_incidents WHERE">>
                \o JoinAnd(<<<<group_by_col, "IS NOT NULL">>, <<group_by_col, "!= ''">>>>
                              \o FilterClauses(f))
                \o <<"GROUP BY", group_by_col,
                     "ORDER BY incident_count DESC LIMIT", ":", "n">>,
             params |-> {<<"n", n>>} \cup FilterParams(f)]

\* The statement get_heatmap_aggregates assembles.
HeatmapQuery(dimension1, dimension2, f) ==
    IF dimension1 \notin HeatmapDimensions \/ dimension2 \notin HeatmapDimensions
          \/ PeriodStatus(f) = 422
       THEN NoQuery(422)
    ELSE IF SameDimension(dimension1, dimension2) THEN NoQuery(200)
    ELSE IF PeriodStatus(f) = 500 THEN NoQuery(500)
    ELSE LET dim1_col == ColMap[dimension1]
             dim2_col == ColMap[dimension2]
         IN [status |-> 200,
             text |->
                <<"WITH all_incidents AS (asn UNION ALL asrs UNION ALL pci)",
                  "SELECT", dim1_col, "AS dim1_value,", dim2_col,
                  "AS dim2_value, COUNT(*) AS incident_count FROM all_incidents WHERE">>
                \o JoinAnd(<<<<dim1_col, "IS NOT NULL">>, <<dim2_col, "IS NOT NULL">>>>
                              \o FilterClauses(f))
                \o <<"GROUP BY", dim1_col, ",", dim2_col,
                     "ORDER BY incident_count DESC">>,
             params |-> FilterParams(f)]

\* Two top-n requests of one category, each with the statement it assembles.
AssembleTopN(category, n1, f1, n2, f2) ==
    /\ response' =
          [endpoint |-> "sql",
           first |-> [choice |-> <<category>>, filters |-> f1,
                      query |-> TopNQuery(category, n1, f1)],
           second |-> [choice |-> <<category>>, filters |-> f2,
                       query |-> TopNQuery(category, n2, f2)]]
    /\ UNCHANGED <<stores, pvars>>

\* Two heatmap requests of one pair of dimensions.
AssembleHeatmap(dimension1, dimension2, f1, f2) ==
    /\ response' =
          [endpoint |-> "sql",
           first |-> [choice |-> <<dimension1, dimension2>>, filters |-> f1,
                      query |-> HeatmapQuery(dimension1, dimension2, f1)],
           second |-> [choice |-> <<dimension1, dimension2>>, filters |-> f2,
                       query |-> HeatmapQuery(dimension1, dimension2, f2)]]
    /\ UNCHANGED <<stores, pvars>>

SqlNext ==
    /\ response = NoResponse
    /\ \/ \E category \in SqlCategoryParams, n1 \in SqlSizes, n2 \in SqlSizes,
             f1 \in SqlFilters, f2 \in SqlFilters :
             AssembleTopN(category, n1, f1, n2, f2)
       \/ \E dimension1 \in SqlDimensionParams, dimension2 \in SqlDimensionParams,
             f1 \in SqlFilters, f2 \in SqlFilters :
             AssembleHeatmap(dimension1, dimension2, f1, f2)

SqlSpec == Init /\ [][SqlNext]_vars

\* GET /reports/uids_by_filter with the common filters in its query string.
\* src/reports.py defines the route on its own router, which main.py neither
\* imports nor includes.
ReportRequests ==
    {[method |-> "GET", path |-> <<"reports", "uids_by_filter">>, filters |-> f] :
        f \in CommonFilters}

ReportsNext ==
    /\ response = NoResponse
    /\ \E request \in ReportRequests : Unrouted(request)

ReportsSpec == QueryInit /\ [][ReportsNext]_vars

(***************************************************************************)
(* Requests served one at a time: a request starts when no other session   *)
(* is serving one.                                                         *)
(***************************************************************************)
OthersIdle(s) == \A t \in Sessions \ {s} : pc[t] = "idle"

SerialNext ==
    \/ \E p \in Pairs : CreateAssignment(p[1], p[2])
    \/ Tick
    \/ \E s \in Sessions, r \in HumanEvaluationRequest :
          OthersIdle(s) /\ SubmitCheck(s, r)
    \/ \E s \in Sessions : SubmitInsert(s)
    \/ \E s \in Sessions : SubmitUpdate(s)
    \/ \E s \in Sessions : SubmitCommit(s)
    \/ \E s \in Sessions : SubmitFail(s)
    \/ \E s \in Sessions : SubmitCrash(s)
    \/ \E s \in Sessions, f \in EvaluatorFilters :
          OthersIdle(s) /\ GetClassificationResults(s, f, DefaultSkip, DefaultLimit)
    \/ \E s \in Sessions : Return(s)

SerialSpec == Init /\ [][SerialNext]_vars

(***************************************************************************)
(* Properties of the submit protocol.  They read the tables directly.      *)
(***************************************************************************)
\* The stored rows of a pair, read off the tables.
AssignmentRowsOf(p) ==
    {a \in DOMAIN evaluation_assignments :
        /\ evaluation_assignments[a].classification_result_id = p[1]
        /\ evaluation_assignments[a].evaluator_id = p[2]}
EvaluationRowsOf(p) ==
    {i \in DOMAIN human_evaluation :
        /\ human_evaluation[i].classification_result_id = p[1]
        /\ human_evaluation[i].evaluator_id = p[2]}
HasOpenAssignment(p) ==
    \E a \in AssignmentRowsOf(p) : ~evaluation_assignments[a].is_complete
HasCompleteAssignment(p) ==
    \E a \in AssignmentRowsOf(p) : evaluation_assignments[a].is_complete
IsSubmit(s) == req[s].kind = "submit"
PairOf(s) == <<req[s].body.classification_result_id, req[s].body.evaluator_id>>

\* C1: concurrent submits of one pair against one incomplete assignment
\* create at most one human_evaluation row for that assignment: a pair never
\* has more human_evaluation rows than it has assignment rows.
C1_OneEvaluationPerAssignment ==
    \A p \in Pairs :
        Cardinality(EvaluationRowsOf(p)) <= Cardinality(AssignmentRowsOf(p))

\* C2: the insert and the update of a submit are committed as one unit: in
\* every committed state a pair has a human_evaluation row exactly when it has
\* an assignment with is_complete = TRUE; a submit whose statement fails (or
\* whose process dies) leaves both tables as they were, keeps none of its
\* writes, and a failing statement is answered with the re-raised error.
C2_PairConsistent ==
    \A p \in Pairs : (EvaluationRowsOf(p) # {}) <=> HasCompleteAssignment(p)
C2_FailureStep(s) ==
    /\ pc[s] \in {"checked", "inserted", "updated"}
    /\ pc'[s] = "done"
    /\ result'[s] # EvaluationSubmitted
C2_AtomicSubmit ==
    [][/\ C2_PairConsistent'
       /\ \A s \in Sessions :
            C2_FailureStep(s) =>
               /\ tables' = tables
               /\ tx_insert'[s] = <<>> /\ tx_update'[s] = {}
               /\ result'[s] \in {ServerError, Crashed}]_vars
\* A submit failed after its insert, leaving no trace, next to a completed pair.
C2_Witness ==
    /\ \E s \in Sessions :
          /\ IsSubmit(s) /\ result[s] = ServerError
          /\ EvaluationRowsOf(PairOf(s)) = {}
          /\ HasOpenAssignment(PairOf(s))
    /\ \E p \in Pairs : EvaluationRowsOf(p) # {} /\ HasCompleteAssignment(p)

\* C3: with requests served one after the other, once a submit of a pair has
\* succeeded (and no assignment of the pair was created since), every later
\* submit of the pair is answered "Assignment not found or already complete."
\* and the pair's number of human_evaluation rows stays what it was, which is
\* one for a pair with a single assignment row.
C3_SecondSubmitFails ==
    \A p \in Pairs :
        settled[p] > 0 =>
           /\ Cardinality(EvaluationRowsOf(p)) = settled[p]
           /\ Cardinality(AssignmentRowsOf(p)) = 1 => settled[p] = 1
           /\ \A s \in Sessions :
                (IsSubmit(s) /\ PairOf(s) = p) =>
                    /\ pc[s] = "done"
                    \* the submit that succeeded, or a later one
                    /\ result[s] \in {EvaluationSubmitted, AssignmentNotFound}
C3_Witness ==
    \E s \in Sessions :
        /\ IsSubmit(s) /\ settled[PairOf(s)] = 1
        /\ result[s] = AssignmentNotFound
        /\ Cardinality(EvaluationRowsOf(PairOf(s))) = 1

\* C4: a submit of a pair with no incomplete assignment row (never assigned,
\* or already completed) is answered with the structured error (status 200,
\* not a 500) and writes nothing: both tables stay as they were and its
\* transaction holds no write.
C4_StartsSubmit(s) == pc[s] = "idle" /\ pc'[s] # "idle" /\ req'[s].kind = "submit"
C4_NotFoundWritesNothing ==
    [][\A s \in Sessions :
          (/\ C4_StartsSubmit(s)
           /\ ~HasOpenAssignment(<<req'[s].body.classification_result_id,
                                   req'[s].body.evaluator_id>>))
          => /\ pc'[s] = "done"
             /\ result'[s] = AssignmentNotFound
             /\ tables' = tables
             /\ tx_insert'[s] = <<>> /\ tx_update'[s] = {}]_vars
\* Answered for a never-assigned pair in one session, for a completed pair in another.
C4_Witness ==
    \E s, t \in Sessions :
        /\ IsSubmit(s) /\ result[s] = AssignmentNotFound
        /\ AssignmentRowsOf(PairOf(s)) = {}
        /\ IsSubmit(t) /\ result[t] = AssignmentNotFound
        /\ HasCompleteAssignment(PairOf(t))

\* C5: a submit of a pair that has an incomplete assignment is not turned
\* away, and when it succeeds it has added exactly one human_evaluation row
\* carrying the submitted classification_result_id, evaluator_id, category,
\* confidence and reasoning, and every assignment row its check found
\* incomplete has is_complete = TRUE and a non-null completed_at.
C5_SubmitSucceeds ==
    [][\A s \in Sessions :
          /\ (C4_StartsSubmit(s)
              /\ HasOpenAssignment(<<req'[s].body.classification_result_id,
                                     req'[s].body.evaluator_id>>))
             => pc'[s] = "checked" /\ result'[s] = NoResult
          /\ (pc[s] # "done" /\ result'[s] = EvaluationSubmitted)
             => /\ Len(human_evaluation') = Len(human_evaluation) + 1
                /\ SubSeq(human_evaluation', 1, Len(human_evaluation)) = human_evaluation
                /\ LET row == human_evaluation'[Len(human_evaluation')]
                       b == req[s].body
                   IN /\ row.classification_result_id = b.classification_result_id
                      /\ row.evaluator_id = b.evaluator_id
                      /\ row.human_category = b.human_category
                      /\ row.human_confidence = b.human_confidence
                      /\ row.human_reasoning = b.human_reasoning
                      /\ row.created_at # NULL
                /\ req[s].found # {}
                /\ \A a \in req[s].found :
                      /\ a \in AssignmentRowsOf(PairOf(s))
                      /\ evaluation_assignments'[a].is_complete
                      /\ evaluation_assignments'[a].completed_at # NULL]_vars
C5_Witness ==
    \E s \in Sessions :
        /\ IsSubmit(s) /\ result[s] = EvaluationSubmitted
        /\ req[s].body.human_category = "OTHR"
        /\ Cardinality(EvaluationRowsOf(PairOf(s))) = 1
        /\ ~HasOpenAssignment(PairOf(s))

\* C6: over any sequence of requests no row of evaluation_assignments or
\* human_evaluation is deleted, no human_evaluation row is modified, no
\* assignment changes its pair and is_complete never goes back to FALSE; only
\* a committing submit adds a human_evaluation row or completes an assignment,
\* and a request that is not a submit leaves both tables as they are.
C6_CommittingSubmit(s) ==
    IsSubmit(s) /\ pc[s] = "updated" /\ result'[s] = EvaluationSubmitted
C6_OnlySubmitWrites ==
    [][/\ Len(human_evaluation') >= Len(human_evaluation)
       /\ SubSeq(human_evaluation', 1, Len(human_evaluation)) = human_evaluation
       /\ Len(evaluation_assignments') >= Len(evaluation_assignments)
       /\ \A a \in DOMAIN evaluation_assignments :
            /\ evaluation_assignments'[a].classification_result_id
                  = evaluation_assignments[a].classification_result_id
            /\ evaluation_assignments'[a].evaluator_id
                  = evaluation_assignments[a].evaluator_id
            /\ evaluation_assignments[a].is_complete
                  => evaluation_assignments'[a].is_complete
       /\ (\/ human_evaluation' # human_evaluation
           \/ \E a \in DOMAIN evaluation_assignments :
                 evaluation_assignments'[a] # evaluation_assignments[a])
          => \E s \in Sessions : C6_CommittingSubmit(s)
       /\ \A s \in Sessions :
            (pc[s] = "idle" /\ pc'[s] # "idle" /\ req'[s].kind # "submit")
               => tables' = tables]_vars
\* A listing was served while the tables held a completed assignment and its evaluation.
C6_Witness ==
    \E s \in Sessions :
        /\ req[s].kind = "listing" /\ result[s].kind = "rows"
        /\ \E p \in Pairs : EvaluationRowsOf(p) # {} /\ HasCompleteAssignment(p)

(***************************************************************************)
(* The read endpoints' claims, over every content of the source tables.    *)
(***************************************************************************)

SourceRowCount ==
    Cardinality(asn_scraped_accidents) + Cardinality(asrs_records)
       + Cardinality(pci_scraped_accidents)

\* C7: GET /aggregates/statistics with no filter answers 200 with
\* total_incidents equal to the sum of the row counts of the three source
\* tables, whatever NULLs the non-key columns hold: the union loses no row
\* and duplicates none.
C7_StatisticsCountsEveryRow ==
    (response.endpoint = "statistics" /\ response.params = NoFilter) =>
        /\ response.status = 200
        /\ response.body.total_incidents = SourceRowCount

\* An unfiltered statistics answer over three tables that each hold a row
\* whose non-key columns are all NULL.
C7_Witness ==
    /\ response.endpoint = "statistics"
    /\ response.params = NoFilter
    /\ AsnRow(<<"asn", 1>>, NullShape) \in asn_scraped_accidents
    /\ AsrsRow(<<"asrs", 1>>, NullShape) \in asrs_records
    /\ PciRow(<<"pci", 1>>, NullShape) \in pci_scraped_accidents
    /\ Cardinality(asn_scraped_accidents) = 2
    /\ response.body.total_incidents = 4

\* The record of the unified row shape for a stored uid.
NormalizedRecord(u) ==
    CASE u[1] = "asn" ->
            LET r == CHOOSE x \in asn_scraped_accidents : x.uid = u
            IN [uid |-> u, date |-> r.sanitized_date, phase |-> r.phase,
                aircraft_type |-> r.aircraft_type, location |-> r.location,
                operator |-> r.operator, narrative |-> r.narrative]
      [] u[1] = "asrs" ->
            LET r == CHOOSE x \in asrs_records : x.uid = u
            IN [uid |-> u, date |-> r.sanitized_date, phase |-> r.phase,
                aircraft_type |-> r.aircraft_type, location |-> r.place,
                operator |-> r.operator, narrative |-> r.synopsis]
      [] u[1] = "pci" ->
            LET r == CHOOSE x \in pci_scraped_accidents : x.uid = u
            IN [uid |-> u, date |-> r.sanitized_date, phase |-> NULL,
                aircraft_type |-> r.aircraft_type, location |-> r.location,
                operator |-> r.operator, narrative |-> r.summary]

StoredUids ==
    {r.uid : r \in asn_scraped_accidents} \cup {r.uid : r \in asrs_records}
       \cup {r.uid : r \in pci_scraped_accidents}

\* C8: GET /record/{uid} with prefix asn, asrs or pci answers with the
\* normalized record of that uid from the prefix's table, or with a
\* not-found signal when the table has no such uid; any other prefix is a
\* client error.
C8_RecordLookup ==
    (/\ response.endpoint = "unrouted"
     /\ response.params.method = "GET"
     /\ response.params.path[1] = "record") =>
        LET u == response.params.path[2]
        IN IF u[1] \in {"asn", "asrs", "pci"}
              THEN IF u \in StoredUids
                      THEN /\ response.status = 200
                           /\ response.body = NormalizedRecord(u)
                      ELSE response.status = 404
              ELSE response.status \in 400..499

\* The rows of the three tables dated in a month of a year.
DatedIn(year, month) ==
    LET In(T) == {r \in T : /\ r.sanitized_date # NULL
                            /\ r.sanitized_date[1][1] = year
                            /\ r.sanitized_date[1][2] = month}
    IN Cardinality(In(asn_scraped_accidents)) + Cardinality(In(asrs_records))
          + Cardinality(In(pci_scraped_accidents))

IsSeasonal == response.endpoint = "seasonal-distribution"
BothYearsSupplied ==
    response.params.start_year # NULL /\ response.params.end_year # NULL

\* C9: with start_year <= end_year both supplied, the seasonal distribution
\* has exactly 12 * (end_year - start_year + 1) entries, one per month of
\* every year of the range, years ascending and months Jan..Dec, v being the
\* number of incidents dated in that month and 0 where there is none.
C9_SeasonalDense ==
    (/\ IsSeasonal
     /\ BothYearsSupplied
     /\ response.params.start_year[1] <= response.params.end_year[1]) =>
        LET first == response.params.start_year[1]
            last == response.params.end_year[1]
            body == response.body
        IN /\ response.status = 200
           /\ Len(body) = 12 * (last - first + 1)
           /\ \A i \in 1..Len(body) :
                 LET year == first + ((i - 1) \div 12)
                     month == ((i - 1) % 12) + 1
                 IN /\ body[i].y = ToString(year)
                    /\ body[i].x = MonthAbbrs[month]
                    /\ body[i].v = DatedIn(year, month)

\* A two-year answer with a month that has an incident and one that has none.
C9_Witness ==
    /\ IsSeasonal
    /\ response.params = [start_year |-> Some(2023), end_year |-> Some(2024)]
    /\ Len(response.body) = 24
    /\ response.body[12] = [x |-> "Dec", y |-> "2023", v |-> 2]
    /\ response.body[13] = [x |-> "Jan", y |-> "2024", v |-> 1]
    /\ response.body[14] = [x |-> "Feb", y |-> "2024", v |-> 0]

\* No incident is dated inside the year bounds the request supplies.
NoRowMatches ==
    \A T \in {asn_scraped_accidents, asrs_records, pci_scraped_accidents} :
        \A r \in T :
            \/ r.sanitized_date = NULL
            \/ /\ response.params.start_year # NULL
               /\ r.sanitized_date[1][1] < response.params.start_year[1]
            \/ /\ response.params.end_year # NULL
               /\ r.sanitized_date[1][1] > response.params.end_year[1]

\* C10 as claimed: the seasonal distribution is the empty list whenever no
\* incident matches the request, whichever year parameters are supplied.
C10_EmptyWheneverNoMatch ==
    (IsSeasonal /\ NoRowMatches) => response.body = <<>>

\* C10 as amended: when no incident matches, the seasonal distribution is
\* the empty list if start_year or end_year is omitted or start_year >
\* end_year; with both supplied and start_year <= end_year it is the
\* zero-filled list of 12 * (end_year - start_year + 1) entries.
C10_EmptyWhenNoMatchAndOpenRange ==
    (IsSeasonal /\ NoRowMatches) =>
        IF BothYearsSupplied
              /\ response.params.start_year[1] <= response.params.end_year[1]
           THEN /\ Len(response.body) =
                      12 * (response.params.end_year[1]
                               - response.params.start_year[1] + 1)
                /\ \A i \in 1..Len(response.body) : response.body[i].v = 0
           ELSE response.body = <<>>

\* Dated incidents exist, none from the only bound supplied on: empty list.
C10_Witness ==
    /\ IsSeasonal
    /\ response.params = [start_year |-> Some(2025), end_year |-> NULL]
    /\ \E r \in asn_scraped_accidents : r.sanitized_date # NULL
    /\ NoRowMatches
    /\ response.body = <<>>

(***************************************************************************)
(* The aggregate endpoints' claims.                                        *)
(***************************************************************************)

\* The stored incidents with the columns of the unified shape.
StoredIncidents ==
    {IncidentOfAsn(r) : r \in asn_scraped_accidents}
       \cup {IncidentOfAsrs(r) : r \in asrs_records}
       \cup {IncidentOfPci(r) : r \in pci_scraped_accidents}

\* The incident satisfies every filter of f that is supplied: list
\* membership on the four columns, the month window on the date.
DaysIn(y, m) ==
    IF m = 2 THEN (IF (y % 4 = 0 /\ y % 100 # 0) \/ y % 400 = 0 THEN 29 ELSE 28)
    ELSE <<31, 28, 31, 30, 31, 30, 31, 31, 30, 31, 30, 31>>[m]
DayNumber(d) == d[1] * 10000 + d[2] * 100 + d[3]
Supplied(list) == list # NULL /\ list # <<>>
Passes(i, f) ==
    /\ Supplied(f.operators) =>
          \E k \in DOMAIN f.operators : i.operator = Some(f.operators[k])
    /\ Supplied(f.phases) =>
          \E k \in DOMAIN f.phases : i.phase = Some(f.phases[k])
    /\ Supplied(f.aircraft_types) =>
          \E k \in DOMAIN f.aircraft_types : i.aircraft_type = Some(f.aircraft_types[k])
    /\ Supplied(f.locations) =>
          \E k \in DOMAIN f.locations : i.location = Some(f.locations[k])
    /\ f.start_period # NULL =>
          /\ i.origin_date # NULL
          /\ DayNumber(i.origin_date[1]) >=
                DayNumber(<<PeriodYear(f.start_period[1]),
                            PeriodMonth(f.start_period[1]), 1>>)
    /\ f.end_period # NULL =>
          /\ i.origin_date # NULL
          /\ DayNumber(i.origin_date[1]) <=
                DayNumber(<<PeriodYear(f.end_period[1]), PeriodMonth(f.end_period[1]),
                            DaysIn(PeriodYear(f.end_period[1]),
                                   PeriodMonth(f.end_period[1]))>>)

\* The category values the filtered incidents carry, one element <<uid,
\* value>> per incident with a non-null, non-empty value.
CategoryOf(i, category) ==
    IF category = "final_category"
       THEN {Some(c.final_category) : c \in {x \in classification_results :
                                                x.source_uid = i.uid}}
       ELSE {Column(i, category)}
Carrying(category, f) ==
    UNION {{<<i.uid, v>> : v \in CategoryOf(i, category) \ {NULL, Some("")}} :
              i \in {x \in StoredIncidents : Passes(x, f)}}

\* C11: a top-n answer is ordered by incident_count non-increasing, has at
\* most min(n, number of distinct non-null non-empty values of the category
\* among the filtered incidents) entries, and each incident_count is the
\* exact number of filtered incidents carrying that value.
C11_TopNSortedBoundedExact ==
    (response.endpoint = "top-n" /\ response.status = 200) =>
        LET body == response.body
            carrying == Carrying(response.params.category, response.params.filters)
            values == {x[2] : x \in carrying}
        IN /\ \A i \in 1..(Len(body) - 1) :
                 body[i].incident_count >= body[i + 1].incident_count
           /\ Len(body) <= Min(response.params.n, Cardinality(values))
           /\ \A i \in 1..Len(body) :
                 /\ body[i].category_value \in values
                 /\ body[i].incident_count =
                       Cardinality({x \in carrying : x[2] = body[i].category_value})
           /\ \A i, j \in 1..Len(body) :
                 body[i].category_value = body[j].category_value => i = j

\* A top-2 answer by final_category led by the two weather incidents, over
\* tables that also hold a blank operator.
C11_Witness ==
    /\ response.endpoint = "top-n"
    /\ response.status = 200
    /\ response.params.category = "final_category"
    /\ response.params.n = 2
    /\ response.params.filters = NoFilter
    /\ Len(response.body) = 2
    /\ response.body[1] = [category_value |-> Some("Weather"), incident_count |-> 2]
    /\ response.body[2].incident_count = 1
    /\ \E r \in asn_scraped_accidents : r.operator = Some("")

\* The request's period parameters have the shape FastAPI's validation
\* accepts (four digits, a dash, two digits), or are omitted.
AcceptedPeriods(f) ==
    \A p \in {f.start_period, f.end_period} :
        p # NULL =>
            /\ Len(p[1]) = 7
            /\ p[1][5] = "-"
            /\ \A k \in {1, 2, 3, 4, 6, 7} : p[1][k] \in Digits

\* C12: a heatmap request with dimension1 equal to dimension2 is answered
\* with the empty list and runs no query, for every dimension and every
\* combination of filters the request validation accepts.
C12_HeatmapSameDimensionEmpty ==
    (/\ response.endpoint = "heatmap"
     /\ response.params.dimension1 = response.params.dimension2
     /\ AcceptedPeriods(response.params.filters)) =>
        /\ response.status = 200
        /\ response.body = <<>>
        /\ response.queries = 0

\* Equal dimensions over tables with a phase to group by, and a month 13
\* that the handler never gets to parse.
C12_Witness ==
    /\ response.endpoint = "heatmap"
    /\ response.params.dimension1 = "phase"
    /\ response.params.dimension2 = "phase"
    /\ response.params.filters.start_period
          = Some(<<"2", "0", "2", "4", "-", "1", "3">>)
    /\ \E r \in asn_scraped_accidents : r.phase = Some("cruise")
    /\ response.status = 200
    /\ response.body = <<>>

\* The text is a year-month: four digits, a dash, two digits, the month in
\* 01..12 and the year one a calendar date can have.
WellFormedYearMonth(p) ==
    /\ Len(p) = 7
    /\ p[5] = "-"
    /\ \A k \in {1, 2, 3, 4, 6, 7} : p[k] \in Digits
    /\ (DigitValue(p[6]) * 10 + DigitValue(p[7])) \in 1..12
    /\ \E k \in 1..4 : p[k] # "0"

MalformedRequest(f) ==
    \E p \in {f.start_period, f.end_period} : p # NULL /\ ~WellFormedYearMonth(p[1])

\* The endpoints of the model that take start_period and end_period.
PeriodEndpoints == {"over-time", "top-n", "heatmap"}

\* C13: a request whose start_period or end_period is no well-formed
\* year-month is answered with a client error before any query runs,
\* never with a server error.
C13_MalformedPeriodIsClientError ==
    (/\ response.endpoint \in PeriodEndpoints
     /\ MalformedRequest(response.params.filters)) =>
        /\ response.status \in 400..499
        /\ response.queries = 0

\* The date lies in the window of the request: on or after the first day of
\* start_period's month, on or before the last calendar day of end_period's.
InWindow(d, f) ==
    /\ f.start_period # NULL =>
          DayNumber(d) >= DayNumber(<<PeriodYear(f.start_period[1]),
                                      PeriodMonth(f.start_period[1]), 1>>)
    /\ f.end_period # NULL =>
          DayNumber(d) <= DayNumber(<<PeriodYear(f.end_period[1]),
                                      PeriodMonth(f.end_period[1]),
                                      DaysIn(PeriodYear(f.end_period[1]),
                                             PeriodMonth(f.end_period[1]))>>)

RECURSIVE TotalCount(_)
\* The sum of the incident_count of a response's entries.
TotalCount(body) ==
    IF body = <<>> THEN 0 ELSE Head(body).incident_count + TotalCount(Tail(body))

\* C14: for a valid year-month, start_period selects the incidents dated on
\* or after the first day of the month and end_period those dated on or
\* before its last calendar day (28, 29, 30 or 31 by month and leap year),
\* both inclusive: the over-time counts add up to the incidents in the window.
C14_MonthWindowInclusive ==
    (response.endpoint = "over-time" /\ response.status = 200) =>
        TotalCount(response.body) =
           Cardinality({i \in StoredIncidents :
                           /\ i.origin_date # NULL
                           /\ InWindow(i.origin_date[1], response.params.filters)})

\* February 2024 as start and end keeps the incidents of the 29th and drops
\* none of them.
C14_Witness ==
    /\ response.endpoint = "over-time"
    /\ response.status = 200
    /\ response.params.filters.start_period = Some(<<"2", "0", "2", "4", "-", "0", "2">>)
    /\ response.params.filters.end_period = Some(<<"2", "0", "2", "4", "-", "0", "2">>)
    /\ \A i \in StoredIncidents : i.origin_date = Some(<<2024, 2, 29>>)
    /\ TotalCount(response.body) = 2

\* The period of a response entry as a number: the year, or year * 100 + month.
EntryPeriod(entry, period) ==
    IF period = "year" THEN entry.period_start
    ELSE PeriodYear(entry.period_start) * 100 + PeriodMonth(entry.period_start)
\* The period an incident's date falls in, as a number.
DatePeriod(d, period) == IF period = "year" THEN d[1] ELSE d[1] * 100 + d[2]

\* The dated incidents that satisfy the request's filters.
MatchingDated(f) ==
    {i \in StoredIncidents : i.origin_date # NULL /\ Passes(i, f)}

IncidentOf(uid) == CHOOSE i \in StoredIncidents : i.uid = uid

\* C15: on an endpoint specified with the common filters, a supplied
\* locations list restricts the answer to incidents whose location is one of
\* the listed values: a by-location answer has entries for listed locations
\* only, and an incidents/locations answer holds incidents at listed
\* locations only.
C15_LocationsFilterRestricts ==
    (/\ response.endpoint \in {"by-location", "incident-locations"}
     /\ response.status = 200
     /\ Supplied(response.params.filters.locations)) =>
        LET listed == {Some(l) : l \in Elements(response.params.filters.locations)}
            body == response.body
        IN \A k \in 1..Len(body) :
              IF response.endpoint = "by-location"
                 THEN body[k].location \in listed
              ELSE IncidentOf(body[k].uid).location \in listed

AirportsOf(i) ==
    {al \in airport_location :
        i.location # NULL /\ Lower(i.location[1]) = Lower(al.icao_code)}
\* Those of them that have coordinates.
LocatedAirportsOf(i) == {al \in AirportsOf(i) : al.lat # NULL /\ al.lon # NULL}

\* C18: both geographic endpoints match an incident's location to an
\* airport's ICAO code case-insensitively and never answer an error: an
\* incident that passes the filters and whose location names an airport with
\* coordinates, in any letter case, is in the answer with that airport's
\* coordinates, and an incident whose location names no airport is not in it.
C18_GeographicMatchIgnoresCase ==
    (/\ response.endpoint \in {"incident-locations", "locations-over-time"}
     /\ response.params.filters \in CommonFilters
     /\ response.params.filters.locations = NULL) =>
        /\ response.status = 200
        /\ LET body == response.body
               f == response.params.filters
           IN IF response.endpoint = "incident-locations"
                 THEN /\ \A i \in {x \in StoredIncidents : Passes(x, f)} :
                            \A al \in LocatedAirportsOf(i) :
                               \E k \in 1..Len(body) :
                                  /\ body[k].uid = i.uid
                                  /\ body[k].lat = al.lat
                                  /\ body[k].lon = al.lon
                      /\ \A k \in 1..Len(body) :
                            AirportsOf(IncidentOf(body[k].uid)) # {}
              ELSE /\ \A i \in MatchingDated(f) :
                         \A al \in LocatedAirportsOf(i) :
                            \E k \in 1..Len(body) :
                               /\ body[k].lat = al.lat
                               /\ body[k].lon = al.lon
                               /\ body[k].period = ToCharYearMonth(i.origin_date[1])
                   /\ TotalCount(body) =
                         Cardinality({i \in MatchingDated(f) : AirportsOf(i) # {}})

\* C19: an unfiltered incidents/locations answer holds every incident whose
\* location equals the ICAO code of an airport row exactly once, with
\* location_name the airport's name.
C19_EveryLocatedIncidentOnce ==
    (/\ response.endpoint = "incident-locations"
     /\ response.params.filters = NoFilter) =>
        /\ response.status = 200
        /\ \A i \in StoredIncidents :
              \A al \in {a \in airport_location : i.location = Some(a.icao_code)} :
                 /\ Cardinality({k \in 1..Len(response.body) :
                                    response.body[k].uid = i.uid}) = 1
                 /\ \A k \in 1..Len(response.body) :
                       response.body[k].uid = i.uid =>
                          response.body[k].location_name = al.name

\* The requested uids that have a classification row and a row in a source
\* table.
Resolvable(uids) ==
    {u \in Elements(uids) :
        /\ \E c \in classification_results : c.source_uid = u
        /\ \E i \in StoredIncidents : i.uid = u}

\* C20: the bulk answer's results hold exactly one entry, keyed by the uid,
\* for each requested uid with a classification row and a row in its source
\* table, and none for any other uid; for the empty list the answer is
\* {"results": {}, "aggregates": {}} and no query runs.
C20_BulkResultsExactlyResolvable ==
    response.endpoint = "bulk" =>
        /\ response.status = 200
        /\ DOMAIN response.body.results = Resolvable(response.params.uids)
        /\ \A u \in DOMAIN response.body.results :
              /\ response.body.results[u].source_uid = u
              /\ response.body.results[u].origin_uid = u
        /\ response.params.uids = <<>> =>
              /\ response.body = [results |-> EmptyObject, aggregates |-> EmptyObject]
              /\ response.queries = 0

\* A request for a classified stored incident and a uid no table holds,
\* answered with the one entry, while another classified uid has no source
\* row and a stored incident has no classification.
C20_Witness ==
    /\ response.endpoint = "bulk"
    /\ response.params.uids = <<<<"asn", 1>>, <<"unknown", 1>>>>
    /\ DOMAIN response.body.results = {<<"asn", 1>>}
    /\ \E c \in classification_results :
          \A i \in StoredIncidents : i.uid # c.source_uid
    /\ \E i \in StoredIncidents :
          \A c \in classification_results : c.source_uid # i.uid

\* C21: in every record of a bulk answer, origin_narrative is the narrative
\* column of an asn incident, synopsis of an asrs incident and summary of a
\* pci incident; origin_location is location, place and location
\* respectively; origin_phase is NULL for every pci incident.
C21_BulkNormalizationPerSource ==
    (response.endpoint = "bulk" /\ response.status = 200) =>
        \A u \in DOMAIN response.body.results :
           LET rec == response.body.results[u]
           IN /\ \A r \in asn_scraped_accidents :
                    r.uid = u => /\ rec.origin_narrative = r.narrative
                                 /\ rec.origin_location = r.location
                                 /\ rec.origin_phase = r.phase
              /\ \A r \in asrs_records :
                    r.uid = u => /\ rec.origin_narrative = r.synopsis
                                 /\ rec.origin_location = r.place
                                 /\ rec.origin_phase = r.phase
              /\ \A r \in pci_scraped_accidents :
                    r.uid = u => /\ rec.origin_narrative = r.summary
                                 /\ rec.origin_location = r.location
                                 /\ rec.origin_phase = NULL
              /\ u \in {r.uid : r \in asn_scraped_accidents}
                          \cup {r.uid : r \in asrs_records}
                          \cup {r.uid : r \in pci_scraped_accidents}

\* A bulk answer with a pci record that has a summary and no phase, and an
\* asn record that has a narrative, a location and a phase.
C21_Witness ==
    /\ response.endpoint = "bulk"
    /\ DOMAIN response.body.results = {<<"pci", 1>>, <<"asn", 2>>}
    /\ response.body.results[<<"pci", 1>>].origin_narrative = Some("Test synopsis")
    /\ response.body.results[<<"pci", 1>>].origin_location = Some("KJFK")
    /\ response.body.results[<<"pci", 1>>].origin_phase = NULL
    /\ response.body.results[<<"asn", 2>>].origin_narrative = Some("Test narrative")
    /\ response.body.results[<<"asn", 2>>].origin_phase = Some("approach")

\* C22: a paginated endpoint rejects a negative skip and a limit above its
\* maximum with a validation error, before any query: no listing request
\* with such a value is answered with rows or with a server error.
C22_PaginationBoundsRejected ==
    \A s \in Sessions :
       (/\ req[s].kind = "listing"
        /\ pc[s] = "done"
        /\ (req[s].skip < 0 \/ req[s].limit > MaxDeclaredLimit)) =>
           result[s].status = 422

\* The filters the two requests supply are the same ones.
SamePresence(f1, f2) == \A k \in DOMAIN f1 : (f1[k] = NULL) <=> (f2[k] = NULL)
\* The texts a caller sent as filter values.
SentValues(f) ==
    UNION {Elements(f[k]) : k \in {"operators", "phases", "aircraft_types", "locations"}}

\* C23: two requests of one endpoint with the same enumerated choice and
\* the same filters present, whatever the filter values and n, are given the
\* same SQL text and placeholders and differ only in bound values; a choice
\* outside the allow-list gets no statement; no fragment of a text is a
\* value the caller sent.
C23_SqlTextIndependentOfValues ==
    response.endpoint = "sql" =>
        LET a == response.first
            b == response.second
        IN /\ SamePresence(a.filters, b.filters) =>
                 /\ a.query.text = b.query.text
                 /\ {x[1] : x \in a.query.params} = {x[1] : x \in b.query.params}
           /\ \A q \in {a, b} :
                 /\ \A i \in 1..Len(q.query.text) :
                       q.query.text[i] \notin SentValues(q.filters) \cup {HostileText}
                 /\ (\E i \in 1..Len(q.choice) : q.choice[i] = HostileText) =>
                       q.query = NoQuery(422)

\* Two top-n requests by operator that supply an operator list, one of them
\* a hostile text, and different n: one text, different bound values.
C23_Witness ==
    /\ response.endpoint = "sql"
    /\ response.first.choice = <<"operator">>
    /\ response.first.filters.operators = <<HostileText>>
    /\ response.second.filters.operators = <<"Test Operator">>
    /\ response.first.query.status = 200
    /\ Len(response.first.query.text) > 0
    /\ response.first.query.text = response.second.query.text
    /\ response.first.query.params # response.second.query.params
    /\ <<"n", MinN>> \in response.first.query.params
    /\ <<"n", MaxN>> \in response.second.query.params

\* C24: GET /reports/uids_by_filter is served and, for every combination of
\* the common filters, answers 200 with exactly the uids of the incidents
\* that satisfy every supplied filter, each once.
C24_UidsByFilterServed ==
    (/\ response.endpoint \in {"unrouted", "uids_by_filter"}
     /\ response.params.path = <<"reports", "uids_by_filter">>) =>
        /\ response.status = 200
        /\ {response.body[k] : k \in 1..Len(response.body)} =
              {i.uid : i \in {x \in StoredIncidents : Passes(x, response.params.filters)}}
        /\ \A j, k \in 1..Len(response.body) :
              response.body[j] = response.body[k] => j = k

\* C25: every stored human_evaluation row has human_confidence within 0.0
\* to 1.0 inclusive (0 to 100 hundredths), whatever confidence the submit
\* requests carried.
C25_ConfidenceInRange ==
    \A k \in 1..Len(human_evaluation) :
       human_evaluation[k].human_confidence \in 0..100

\* C26: completed is terminal for an assignment row: no step changes the
\* completed_at of a row that has is_complete = TRUE and completed_at set.
C26_CompletedAtIsFinal ==
    [][\A a \in AssignmentIds :
          (/\ evaluation_assignments[a].is_complete
           /\ evaluation_assignments[a].completed_at # NULL) =>
              evaluation_assignments'[a].completed_at =
                 evaluation_assignments[a].completed_at]_vars

\* C27: a step of a submit for pair (c, e), whatever its outcome, leaves
\* every evaluation_assignments row and every human_evaluation row of any
\* other pair as it was, and adds rows of its own pair only, also when
\* submits for different pairs interleave.
C27_SubmitLeavesOtherPairs ==
    [][\A s \in Sessions :
          (IsSubmit(s) /\ pc'[s] # pc[s]) =>
             /\ \A a \in DOMAIN evaluation_assignments :
                   <<evaluation_assignments[a].classification_result_id,
                     evaluation_assignments[a].evaluator_id>> # PairOf(s)
                      => evaluation_assignments'[a] = evaluation_assignments[a]
             /\ Len(evaluation_assignments') = Len(evaluation_assignments)
             /\ \A i \in DOMAIN human_evaluation' :
                   IF i \in DOMAIN human_evaluation
                      THEN human_evaluation'[i] = human_evaluation[i]
                      ELSE <<human_evaluation'[i].classification_result_id,
                             human_evaluation'[i].evaluator_id>> = PairOf(s)]_vars

\* A submit for (101, "JB") has committed while a submit for (101, "jb") is
\* under way, and the incomplete assignment of (101, "jb") is as it was.
C27_Witness ==
    \E s, t \in Sessions :
       /\ IsSubmit(s) /\ pc[s] = "done" /\ result[s] = EvaluationSubmitted
       /\ PairOf(s) = <<101, "JB">>
       /\ IsSubmit(t) /\ pc[t] \in {"checked", "inserted", "updated"}
       /\ PairOf(t) = <<101, "jb">>
       /\ \E a \in AssignmentRowsOf(<<101, "jb">>) :
             /\ ~evaluation_assignments[a].is_complete
             /\ evaluation_assignments[a].completed_at = NULL
       /\ EvaluationRowsOf(<<101, "jb">>) = {}
       /\ EvaluationRowsOf(<<101, "JB">>) # {}

\* C28: in every non-empty response of POST /full_classification_results_bulk
\* aggregates.total_incidents is the number of entries of results, and
\* phase_counts and operator_counts count exactly the records of results,
\* for every content of the tables, several classification rows of one
\* source_uid included.
C28_AggregatesCountResults ==
    (response # NoResponse /\ response.endpoint = "bulk"
        /\ response.body.results # EmptyObject) =>
       LET results == response.body.results
           aggregates == response.body.aggregates
           records == {results[u] : u \in DOMAIN results}
       IN /\ aggregates.total_incidents = Cardinality(DOMAIN results)
          /\ DOMAIN aggregates.phase_counts = PhaseValues(records)
          /\ \A v \in DOMAIN aggregates.phase_counts :
                aggregates.phase_counts[v] =
                   Cardinality({u \in DOMAIN results :
                                   results[u].origin_phase = Some(v)})
          /\ DOMAIN aggregates.operator_counts = OperatorValues(records)
          /\ \A v \in DOMAIN aggregates.operator_counts :
                aggregates.operator_counts[v] =
                   Cardinality({u \in DOMAIN results :
                                   results[u].origin_operator = Some(v)})

(***************************************************************************)
(* The evaluation UI (human_eval_tool): the message its POST view shows    *)
(* for an answer of POST /human_evaluation/submit.                         *)
(***************************************************************************)
\* messages.success(request, "Evaluation Submitted! Thank you.")
SuccessMessage == [level |-> "success", text |-> "Evaluation Submitted! Thank you."]
\* messages.error(request, f"Submission failed: {submit_resp.text}")
SubmissionFailed == [level |-> "error", text |-> "Submission failed"]
\* messages.error(request, f"Submission error: {e}")
SubmissionError == [level |-> "error", text |-> "Submission error"]

\* EvaluationInterfaceView.post: no answer raises requests.RequestException;
\* an answer is judged by submit_resp.status_code alone.
EvaluationInterfaceView_post(submit_resp) ==
    IF submit_resp.kind = "crashed" THEN SubmissionError
    ELSE IF submit_resp.status = 200 THEN SuccessMessage
    ELSE SubmissionFailed

\* C29: the evaluation UI shows the success message for a POST only if that
\* POST recorded a HumanEvaluation row; when the API answers that the
\* assignment was not found or is already complete, the UI shows a failure.
C29_SuccessMessageOnlyWhenRecorded ==
    \A s \in Sessions :
       (IsSubmit(s) /\ pc[s] = "done") =>
          LET message == EvaluationInterfaceView_post(result[s])
          IN /\ message = SuccessMessage => result[s] = EvaluationSubmitted
             /\ result[s] = AssignmentNotFound => message.level = "error"

\* C30: listing and submitting agree on the evaluator: the listing for
\* evaluator_id E holds every classification result that has an incomplete
\* assignment with evaluator_id = E (for which a submit with evaluator_id E
\* is accepted), and the listing without evaluator_id, not cut by skip and
\* limit, holds each classification result exactly once.
C30_ListingAgreesWithSubmit ==
    [][\A s \in Sessions :
          (/\ pc[s] = "idle" /\ pc'[s] = "done"
           /\ req'[s].kind = "listing" /\ result'[s].kind = "rows") =>
             LET rows == result'[s].body
                 E == req'[s].evaluator_id
             IN IF E # NULL
                   THEN \A c \in classification_results :
                           IncompleteAssignments(c.id, E[1]) # {} =>
                              \E i \in DOMAIN rows : rows[i].id = c.id
                   ELSE \A c \in classification_results :
                           Cardinality({i \in DOMAIN rows : rows[i].id = c.id}) = 1]_vars

====
